---- MODULE Spec2Model ----
(***************************************************************************)
(* Reverse-mode automatic differentiation over a shared computation graph  *)
(* (src/src/nodes.rs): pass counters, operator nodes, parameter leaves     *)
(* with their gradient accumulators, and the sparse gradient store.        *)
(*                                                                         *)
(* Arrays (Arr) are sequences of rows of integers.  A graph is a sequence  *)
(* of node descriptors; a node's operands are nodes built before it, as    *)
(* the constructors take already built operands.                           *)
(***************************************************************************)
EXTENDS Integers, Sequences, FiniteSets, TLC

\* ------------------------------------------------------------------ bounds
\* Largest number of nodes of a graph.
MaxNodes == 3
\* Largest number of forward/backward/zero rounds a client drives.
MaxRounds == 2
\* Largest number of client calls in the free-order specification.
MaxCalls == 3
\* Largest number of operations on a lone gradient accumulator.
MaxAccOps == 4
\* Largest number of rounds each of two workers drives.
MaxWorkerRounds == 1
\* Largest number of calls on a lone pass counter.
MaxCounterOps == 5
\* Shape of every dense leaf: Rows x Cols.
Rows == 2
Cols == 1
\* Largest number of columns of the input of a lone SoftmaxNode.
MaxSoftmaxCols == 2
\* Largest number of nodes of a graph of Concatenate nodes.
MaxConcatNodes == 4
\* Largest number of calls of a client that never calls zero_gradient.
MaxRepeatCalls == 4
\* Largest number of client calls on a graph with a LogSoftmax root.
MaxLogSoftmaxCalls == 4

\* ------------------------------------------------------------------ arrays
\* The Rows x Cols array with element a*r + b in row r (all columns).
ArrOf(a, b) == [r \in 1..Rows |-> [c \in 1..Cols |-> a * r + b]]

\* An Option<Arr> that is None.
None == <<>>

ArrAdd(x, y) == [r \in DOMAIN x |-> [c \in DOMAIN x[r] |-> x[r][c] + y[r][c]]]
ArrSub(x, y) == [r \in DOMAIN x |-> [c \in DOMAIN x[r] |-> x[r][c] - y[r][c]]]
ArrMul(x, y) == [r \in DOMAIN x |-> [c \in DOMAIN x[r] |-> x[r][c] * y[r][c]]]
ArrNeg(x) == [r \in DOMAIN x |-> [c \in DOMAIN x[r] |-> 0 - x[r][c]]]
ArrScale(k, x) == [r \in DOMAIN x |-> [c \in DOMAIN x[r] |-> k * x[r][c]]]

IsZeroArr(x) == \A r \in DOMAIN x : \A c \in DOMAIN x[r] : x[r][c] = 0

\* Values a client writes into dense leaves, seed gradients, index lists.
LeafVals == {ArrOf(1, 0), ArrOf(-1, 4)}
GradVals == {ArrOf(0, 1), ArrOf(1, -3)}
IdxVals == {[i \in 1..Rows |-> k] : k \in 0..1} \cup {[i \in 1..Rows |-> i - 1]}

\* ------------------------------------------------------------------ graphs
LeafKinds == {"param", "input", "idxinput"}
ElementwiseKinds == {"add", "sub", "mul"}
BinaryKinds == ElementwiseKinds \cup {"concat"}
UnaryKinds == {"neg"}
OperatorKinds == BinaryKinds \cup UnaryKinds \cup {"index", "softmax", "logsoftmax"}

Leaf(k, sid) == [kind |-> k, lhs |-> 0, rhs |-> 0, store |-> sid]
Operator(k, l, r) == [kind |-> k, lhs |-> l, rhs |-> r, store |-> 0]

\* ConcatenateNode::new(lhs, rhs, axis).
Concatenate(axis, l, r) ==
    [kind |-> "concat", lhs |-> l, rhs |-> r, store |-> 0, axis |-> axis]

\* ParameterNode::new: the node wraps a store of its own (store n, made for
\* node n).
NewParameter(n) == Leaf("param", n)

\* A shared() that wraps a copy of the store.
SharedParameterCloned(sid, n) == Leaf("param", n)

\* ParameterNode::shared: node n wraps the store sid it is given.
SharedParameter(sid, n) == Leaf("param", sid)

KindRank(k) == CASE k = "param" -> 1 [] k = "input" -> 2 [] k = "idxinput" -> 3 [] OTHER -> 4

\* The nodes a constructor can add to the graph g: a leaf, or an operator over
\* operands already built.  Leaves come first (params, inputs, index inputs):
\* every construction order of a DAG can be renumbered this way.
NodeChoices(g) ==
    LET n == Len(g) + 1
        dense == {i \in 1..Len(g) : g[i].kind # "idxinput"}
        params == {i \in 1..Len(g) : g[i].kind = "param"}
        idxs == {i \in 1..Len(g) : g[i].kind = "idxinput"}
        last == IF n = 1 THEN 0 ELSE KindRank(g[n - 1].kind)
    IN  {Leaf(k, IF k = "param" THEN n ELSE 0) : k \in {k \in LeafKinds : KindRank(k) >= last}}
        \cup {Operator(k, l, r) : k \in ElementwiseKinds, l \in dense, r \in dense}
        \cup {Operator(k, l, 0) : k \in UnaryKinds, l \in dense}
        \cup {Operator("index", l, r) : l \in params, r \in idxs}

Operands(g, n) == {g[n].lhs, g[n].rhs} \ {0}

\* The operand edges of node n, with multiplicity: <<consumer, operand>> pairs
\* as a sequence (lhs first, as the code visits them).  An Index node keeps its
\* operand and its index input but calls neither on forward.
OperandSeq(g, n) ==
    IF g[n].kind \in BinaryKinds THEN <<g[n].lhs, g[n].rhs>>
    ELSE IF g[n].kind \in UnaryKinds \cup {"softmax", "logsoftmax"} THEN <<g[n].lhs>>
    ELSE <<>>

RECURSIVE ReachableFrom(_, _)
ReachableFrom(g, n) == {n} \cup UNION {ReachableFrom(g, m) : m \in Operands(g, n)}

\* x: a parameter; y = x - x; z = (y + y) + y.
SubCounterGraph ==
    <<Leaf("param", 1), Operator("sub", 1, 1), Operator("add", 2, 2), Operator("add", 3, 2)>>

\* x: a parameter; y = x * x; a = y * x; z = a + y.
CubePlusSquareGraph ==
    <<Leaf("param", 1), Operator("mul", 1, 1), Operator("mul", 2, 1), Operator("add", 3, 2)>>

\* ------------------------------------------------------------------ state
VARIABLES
    graph,            \* the nodes built so far, in construction order
    debug,            \* the build: TRUE when debug assertions are compiled in
    forward_count,    \* PassCounter.forward_count of each operator node
    backward_count,   \* PassCounter.backward_count of each operator node
    value,            \* cached value of each node (leaf inputs: their value)
    needs_gradient,   \* the needs_gradient flag of each node
    lhs_gradient,     \* lhs_gradient / operand_gradient / gradient buffer
    rhs_gradient,     \* rhs_gradient buffer of the binary nodes that have one
    index_value,      \* IndexNode.index_value: the list captured by forward
    dense_gradient,   \* GradientAccumulator.dense_gradient (None = not allocated)
    has_dense,        \* GradientAccumulator.has_dense
    sparse_len,       \* SparseGradientStore.len
    sparse_data,      \* SparseGradientStore.data
    pushed,           \* the pairs handed to the sparse store since its last clear
    hogwild,          \* HogwildParameter.value of each parameter store
    value_borrows,    \* borrow flag of the RefCell of HogwildParameter.value
                      \* (0: not borrowed, n > 0: n readers, -1: a writer)
    aborted,          \* the process has panicked
    log,              \* the calls made during the last client call, in order
    pc,               \* the client's position in its round
    round,            \* rounds the client has started
    calls,            \* client calls made so far
    last,             \* the last client call
    returned          \* what the last client call returned (None: nothing)

nodeVars == <<forward_count, backward_count, value, needs_gradient, lhs_gradient, rhs_gradient,
              index_value, dense_gradient, has_dense, sparse_len, sparse_data,
              pushed, hogwild, value_borrows, aborted, log>>
clientVars == <<pc, round, calls, last, returned>>
vars == <<graph, debug, nodeVars, clientVars>>

Root == Len(graph)
Nodes == 1..Len(graph)
Kind(n) == graph[n].kind
IsOperator(n) == Kind(n) \in OperatorKinds
IsParam(n) == Kind(n) = "param"

\* The node state as one record, threaded through the recursive calls.
Pack ==
    [fc |-> forward_count, bc |-> backward_count, value |-> value,
     needs |-> needs_gradient,
     lgrad |-> lhs_gradient, rgrad |-> rhs_gradient, idxval |-> index_value,
     dense |-> dense_gradient, has_dense |-> has_dense, slen |-> sparse_len,
     sdata |-> sparse_data, pushed |-> pushed, hogwild |-> hogwild,
     borrows |-> value_borrows, aborted |-> aborted, log |-> log]

Unpack(s) ==
    /\ forward_count' = s.fc
    /\ backward_count' = s.bc
    /\ value' = s.value
    /\ needs_gradient' = s.needs
    /\ lhs_gradient' = s.lgrad
    /\ rhs_gradient' = s.rgrad
    /\ index_value' = s.idxval
    /\ dense_gradient' = s.dense
    /\ has_dense' = s.has_dense
    /\ sparse_len' = s.slen
    /\ sparse_data' = s.sdata
    /\ pushed' = s.pushed
    /\ hogwild' = s.hogwild
    /\ value_borrows' = s.borrows
    /\ aborted' = s.aborted
    /\ log' = s.log

\* One entry of the call log: a call received by a node (op "forward",
\* "backward", "zero"), or a recomputation of its value (op "eval", one level
\* below the forward call that does it).  depth is the depth of the call below
\* the client's call, count the counter read by the call (forward_count for
\* forward and zero, backward_count for backward).
Event(op, n, d, c, g) == [op |-> op, node |-> n, depth |-> d, count |-> c, grad |-> g]

Logged(s, e) == [s EXCEPT !.log = Append(@, e)]

Panic(s) == [s EXCEPT !.aborted = TRUE]

\* ------------------------------------------------------------------ PassCounter
\* A counter that reports every forward call as the first of its round.
ForwardActionAlwaysEvaluate(count) == "Evaluate"

ForwardAction(count) == IF count = 0 THEN "Evaluate" ELSE "Cached"

\* A counter that reports every backward call as the first of its round.
BackwardActionAlwaysSet(count) == "Set"

BackwardAction(count) == IF count = 0 THEN "Set" ELSE "Increment"

\* assert!(backward_count <= forward_count) of recurse_backward: compiled in
\* every build.
RecurseAssertHolds(fc, bc) == bc <= fc

\* recurse_backward answering one call early, and answering on every call.
RecurseBackwardOneEarly(fc, bc) == bc + 1 = fc

RecurseBackwardEager(fc, bc) == bc >= 1

RecurseBackward(fc, bc) == bc = fc

\* A clear that resets the forward count alone.
PassCounterClearForwardOnly(s, n) == [s EXCEPT !.fc[n] = 0]

\* PassCounter::clear on the counter of node n.
PassCounterClear(s, n) == [s EXCEPT !.fc[n] = 0, !.bc[n] = 0]

\* An is_zero without the debug assertion.
IsZeroNeverPanics(fc, bc) == FALSE

\* is_zero panics in a debug build unless recurse_backward() returns true.
IsZeroPanics(fc, bc) == debug /\ ~(RecurseAssertHolds(fc, bc) /\ RecurseBackward(fc, bc))

\* An is_zero that looks at the backward count.
IsZeroOfBackward(fc, bc) == bc = 0

IsZero(fc, bc) == fc = 0

\* ------------------------------------------------------------------ accumulator
ZerosLike(x) == ArrScale(0, x)

\* The value a node's consumers read: a parameter reads its store.
Val(s, n) == IF Kind(n) = "param" THEN s.hogwild[graph[n].store] ELSE s.value[n]

\* A value() that computes the value from the operands' current values.
NodeValueRecomputing(s, n) ==
    IF Kind(n) \in BinaryKinds \cup UnaryKinds
    THEN LET l == IF Kind(graph[n].lhs) = "param"
                  THEN s.hogwild[graph[graph[n].lhs].store] ELSE s.value[graph[n].lhs]
             r == IF Kind(n) \in UnaryKinds THEN <<>>
                  ELSE IF Kind(graph[n].rhs) = "param"
                  THEN s.hogwild[graph[graph[n].rhs].store] ELSE s.value[graph[n].rhs]
         IN  CASE Kind(n) = "add" -> ArrAdd(l, r)
               [] Kind(n) = "sub" -> ArrSub(l, r)
               [] Kind(n) = "mul" -> ArrMul(l, r)
               [] Kind(n) = "neg" -> ArrNeg(l)
    ELSE IF Kind(n) = "param" THEN s.hogwild[graph[n].store] ELSE s.value[n]

\* Node::value: a parameter returns a reference into its store, every other
\* node a borrow of its own value cell.
NodeValue(s, n) == IF Kind(n) = "param" THEN s.hogwild[graph[n].store] ELSE s.value[n]

\* A push that appends a new slot on every call.
PushAlwaysAppends(len, data, idx, g) ==
    [len |-> len + 1, data |-> Append(data, <<idx, g>>)]

\* SparseGradientStore::push as written: a reused slot is overwritten and len
\* grows; a new slot is appended to data and len is left as it is.
Push(len, data, idx, g) ==
    IF len < Len(data)
    THEN [len |-> len + 1, data |-> [data EXCEPT ![len + 1] = <<idx, g>>]]
    ELSE [len |-> len, data |-> Append(data, <<idx, g>>)]

\* SparseGradientStore::as_slice: data[..len].
AsSlice(len, data) == SubSeq(data, 1, len)

\* GradientAccumulator::dense_gradient: the buffer, allocated as zeros on the
\* first use.
DenseGradient(dense, like) == IF dense = None THEN ZerosLike(like) ELSE dense

\* An accumulator that lives in the store, one for all the nodes wrapping it.
AccumulateDenseInStore(s, p, g) ==
    [s EXCEPT !.dense[graph[p].store] =
                  IF s.dense[graph[p].store] = <<>>
                  THEN g ELSE ArrAdd(s.dense[graph[p].store], g),
              !.has_dense[graph[p].store] = TRUE]

\* accumulate_gradient of a dense gradient.
AccumulateDense(s, p, g) ==
    [s EXCEPT !.dense[p] = ArrAdd(DenseGradient(s.dense[p], Val(s, p)), g),
              !.has_dense[p] = TRUE]

\* A sparse accumulate_gradient that marks the dense buffer as used.
AccumulateSparseAsDense(s, p, idx, g) ==
    LET r == Push(s.slen[p], s.sdata[p], idx, g)
    IN  [s EXCEPT !.slen[p] = r.len, !.sdata[p] = r.data,
                  !.pushed[p] = Append(@, <<idx, g>>), !.has_dense[p] = TRUE]

\* accumulate_gradient of an (index list, gradient) pair.
AccumulateSparse(s, p, idx, g) ==
    LET r == Push(s.slen[p], s.sdata[p], idx, g)
    IN  [s EXCEPT !.slen[p] = r.len, !.sdata[p] = r.data,
                  !.pushed[p] = Append(@, <<idx, g>>)]

\* ---- the value buffer of a store
\* An access that takes a shared borrow of the cell and keeps the guard.
Borrow(s, sid) ==
    IF s.borrows[sid] < 0 THEN Panic(s) ELSE [s EXCEPT !.borrows[sid] = @ + 1]

\* RefCell::as_ptr, through which every accessor of the store reaches the
\* buffer: the borrow flag is neither read nor written.
AsPtr(s, sid) == s

\* value_mut()[r] = x: one row of the buffer of store sid is overwritten.
StoreWriteRow(s, sid, r, x) == [s EXCEPT !.hogwild[sid][r] = x]

\* A zero_gradient that leaves the dense buffer as it is.
AccumulatorZeroKeepsDense(s, p) ==
    [s EXCEPT !.slen[p] = 0, !.pushed[p] = <<>>, !.has_dense[p] = FALSE]

\* GradientAccumulator::zero_gradient.
AccumulatorZero(s, p) ==
    [s EXCEPT !.dense[p] = IF s.has_dense[p]
                           THEN ZerosLike(DenseGradient(s.dense[p], Val(s, p)))
                           ELSE s.dense[p],
              !.slen[p] = 0,
              !.pushed[p] = <<>>,
              !.has_dense[p] = FALSE]

\* super::clamp: clip x to [min, max].
ClampValue(x, min, max) == IF x > max THEN max ELSE IF x < min THEN min ELSE x

ClampArr(x, min, max) ==
    [r \in DOMAIN x |-> [c \in DOMAIN x[r] |-> ClampValue(x[r][c], min, max)]]

\* A clamp that clips the dense buffer alone.
AccumulatorClampDenseOnly(s, p, min, max) ==
    [s EXCEPT !.dense[p] = ClampArr(DenseGradient(s.dense[p], Val(s, p)), min, max)]

\* GradientAccumulator::clamp: the dense buffer (allocated if it was not) and
\* every visible sparse contribution.
AccumulatorClamp(s, p, min, max) ==
    [s EXCEPT !.dense[p] = ClampArr(DenseGradient(s.dense[p], Val(s, p)), min, max),
              !.sdata[p] = [i \in DOMAIN s.sdata[p] |->
                               IF i <= s.slen[p]
                               THEN <<s.sdata[p][i][1], ClampArr(s.sdata[p][i][2], min, max)>>
                               ELSE s.sdata[p][i]]]

\* ------------------------------------------------------------------ nodes
\* fast_slice / as_slice: the elements of an array in row-major order.
RECURSIVE FlattenUpTo(_, _)
FlattenUpTo(x, r) == IF r = 0 THEN <<>> ELSE FlattenUpTo(x, r - 1) \o x[r]

FastSlice(x) == FlattenUpTo(x, Len(x))

\* ---- exact fractions <<numerator, denominator>> for the softmax values
RECURSIVE GCD(_, _)
GCD(a, b) == IF b = 0 THEN a ELSE GCD(b, a % b)

Frac(n, d) == <<n \div GCD(n, d), d \div GCD(n, d)>>
FracAdd(x, y) == Frac(x[1] * y[2] + y[1] * x[2], x[2] * y[2])
FracDiv(x, y) == Frac(x[1] * y[2], x[2] * y[1])
FracSub(x, y) == Frac(x[1] * y[2] - y[1] * x[2], x[2] * y[2])
FracMul(x, y) == Frac(x[1] * y[1], x[2] * y[2])

\* scalar_sum: the sum of the elements xs.
RECURSIVE FracSum(_)
FracSum(xs) ==
    IF Len(xs) = 0 THEN <<0, 1>>
    ELSE FracAdd(FracSum(SubSeq(xs, 1, Len(xs) - 1)), xs[Len(xs)])

RECURSIVE Pow2(_)
Pow2(n) == IF n = 0 THEN 1 ELSE 2 * Pow2(n - 1)

\* numerics::exp of a difference d <= 0: a positive, increasing function with
\* value 1 at 0; base 2 keeps the arithmetic exact.
Exp(d) == Frac(1, Pow2(0 - d))

\* fold(f32::MIN, max) over the elements of a non-empty slice.
SliceMax(xs) ==
    CHOOSE m \in {xs[i] : i \in DOMAIN xs} : \A i \in DOMAIN xs : xs[i] <= m

\* SoftmaxNode: exp(x - max) over the maximum of all the elements of the
\* operand, divided by the sum of all the exponentials.
Softmax(x) ==
    LET max == SliceMax(FastSlice(x))
        numerator == [r \in DOMAIN x |-> [c \in DOMAIN x[r] |-> Exp(x[r][c] - max)]]
        denominator == FracSum(FastSlice(numerator))
    IN  [r \in DOMAIN x |-> [c \in DOMAIN x[r] |-> FracDiv(numerator[r][c], denominator)]]

\* LogSoftmaxNode: x - (max + ln(sum of exp(x - max))), the maximum and the
\* sum over all the elements.  An element is kept as the pair <<d, S>> that
\* stands for d - ln(S), with d = x - max and S the sum.
LogSoftmax(x) ==
    LET max == SliceMax(FastSlice(x))
        exps == [i \in DOMAIN FastSlice(x) |-> Exp(FastSlice(x)[i] - max)]
        sum == FracSum(exps)
    IN  [r \in DOMAIN x |-> [c \in DOMAIN x[r] |-> <<x[r][c] - max, sum>>]]

\* numerics::exp of an element of a LogSoftmax value: exp(d - ln(S)) =
\* exp(d) / S.
ExpOfLog(v) == FracDiv(Exp(v[1]), v[2])

\* simd_sum: the sum of the elements of a gradient.
RECURSIVE SimdSum(_)
SimdSum(xs) == IF Len(xs) = 0 THEN 0 ELSE SimdSum(SubSeq(xs, 1, Len(xs) - 1)) + xs[Len(xs)]

\* LogSoftmaxNode::backward: out = beta * out + in - exp(value) * sum(in),
\* beta 0 on Set and 1 on Increment.
LogSoftmaxGradient(action, buffer, g, val) ==
    LET gradient_sum == SimdSum(FastSlice(g))
    IN  [r \in DOMAIN buffer |-> [c \in DOMAIN buffer[r] |->
            FracSub(FracAdd(IF action = "Set" THEN <<0, 1>> ELSE buffer[r][c],
                            <<g[r][c], 1>>),
                    FracMul(ExpOfLog(val[r][c]), <<gradient_sum, 1>>))]]

Shape(x) == <<Len(x), IF Len(x) = 0 THEN 0 ELSE Len(x[1])>>

Min(a, b) == IF a <= b THEN a ELSE b

\* A shape check that is compiled in no build.
ShapeAssertNeverFails(l, r, v) == FALSE

\* The debug_assert_eq! on the operands' shapes of AddNode::forward: compiled
\* in debug builds only.
ShapeAssertFails(l, r, v) == debug /\ (Shape(l) # Shape(v) \/ Shape(r) # Shape(v))

\* The loop of AddNode::forward: izip! over the elements of the value and of
\* the operands stops at the shortest; the elements beyond keep what they held.
ZipAdd(old, l, r) ==
    LET fl == FastSlice(l)
        fr == FastSlice(r)
        k == Min(Len(FastSlice(old)), Min(Len(fl), Len(fr)))
    IN  [i \in DOMAIN old |-> [c \in DOMAIN old[i] |->
            IF (i - 1) * Len(old[1]) + c <= k
            THEN fl[(i - 1) * Len(old[1]) + c] + fr[(i - 1) * Len(old[1]) + c]
            ELSE old[i][c]]]

\* The debug_assert_eq! of IndexNode::forward on the number of rows.
IndexAssertFails(v, idx) == debug /\ Len(v) # Len(idx)

\* A stack that fails on mismatched operands alone, whatever the axis.
StackFailsOnShapesOnly(axis, l, r) ==
    \/ axis = 0 /\ Shape(l)[2] # Shape(r)[2]
    \/ axis # 0 /\ Shape(l)[1] # Shape(r)[1]

\* ndarray::stack as ConcatenateNode::new calls it: an error for an axis that
\* a 2-D array does not have and for operands that differ along the other axis.
StackFails(axis, l, r) ==
    \/ axis \notin {0, 1}
    \/ axis = 0 /\ Shape(l)[2] # Shape(r)[2]
    \/ axis = 1 /\ Shape(l)[1] # Shape(r)[1]

Stack(axis, l, r) == IF axis = 0 THEN l \o r ELSE [i \in DOMAIN l |-> l[i] \o r[i]]

\* row_wise_stack: the rows of dest zipped with the rows of lhs followed by
\* the rows of rhs.
RowWiseStack(dest, l, r) ==
    [i \in DOMAIN dest |-> IF i <= Len(l \o r) THEN (l \o r)[i] ELSE dest[i]]

\* column_wise_stack: row i of dest is row i of lhs followed by row i of rhs.
ColumnWiseStack(dest, l, r) ==
    [i \in DOMAIN dest |-> IF i <= Min(Len(l), Len(r)) THEN l[i] \o r[i] ELSE dest[i]]

\* One row of a gradient buffer set to, or incremented by, a gradient row.
ZipRow(action, x, y) ==
    [c \in DOMAIN x |->
        IF c <= Len(y) THEN (IF action = "Set" THEN y[c] ELSE x[c] + y[c]) ELSE x[c]]

\* A row-wise gradient split that hands the rhs the rows of the lhs.
RowWiseStackGradientFromTop(g, lbuf, rbuf, action) ==
    [lhs |-> [i \in DOMAIN lbuf |-> ZipRow(action, lbuf[i], g[i])],
     rhs |-> [i \in DOMAIN rbuf |-> ZipRow(action, rbuf[i], g[i])]]

\* row_wise_stack_gradient: the rows of the gradient zipped with the rows of
\* the lhs buffer followed by those of the rhs buffer.
RowWiseStackGradient(g, lbuf, rbuf, action) ==
    LET dest == [i \in DOMAIN (lbuf \o rbuf) |->
                    IF i <= Len(g) THEN ZipRow(action, (lbuf \o rbuf)[i], g[i])
                    ELSE (lbuf \o rbuf)[i]]
    IN  [lhs |-> SubSeq(dest, 1, Len(lbuf)), rhs |-> SubSeq(dest, Len(lbuf) + 1, Len(dest))]

\* column_wise_stack_gradient: each gradient row is split at the width of the
\* lhs buffer.
ColumnWiseStackGradient(g, lbuf, rbuf, action) ==
    LET rows == Min(Len(g), Min(Len(lbuf), Len(rbuf)))
    IN  [lhs |-> [i \in DOMAIN lbuf |->
                    IF i <= rows
                    THEN ZipRow(action, lbuf[i], SubSeq(g[i], 1, Len(lbuf[i])))
                    ELSE lbuf[i]],
         rhs |-> [i \in DOMAIN rbuf |->
                    IF i <= rows
                    THEN ZipRow(action, rbuf[i], SubSeq(g[i], Len(lbuf[i]) + 1, Len(g[i])))
                    ELSE rbuf[i]]]

\* The value an operator computes from its operands' values.
Compute(k, l, r) ==
    CASE k = "add" -> ArrAdd(l, r)
      [] k = "sub" -> ArrSub(l, r)
      [] k = "mul" -> ArrMul(l, r)
      [] k = "neg" -> ArrNeg(l)
      [] k = "softmax" -> Softmax(l)
      [] k = "logsoftmax" -> LogSoftmax(l)

\* IndexNode: row i of the output is row idx[i] of the operand (0-based idx);
\* rows beyond the index list keep what they held.
SelectRows(old, operand, idx) ==
    [i \in DOMAIN old |-> IF i <= Len(idx) THEN operand[idx[i] + 1] ELSE old[i]]

\* A Mul node that multiplies the gradient for its lhs by the lhs value.
LhsContributionSwapped(k, g, lv, rv) ==
    CASE k = "add" -> g
      [] k = "sub" -> g
      [] k = "mul" -> ArrMul(lv, g)
      [] k = "neg" -> ArrNeg(g)

\* What one backward call with gradient g contributes to the lhs / rhs operand
\* gradient buffer of a node of kind k (lv, rv: the operands' current values).
LhsContribution(k, g, lv, rv) ==
    CASE k = "add" -> g
      [] k = "sub" -> g
      [] k = "mul" -> ArrMul(rv, g)
      [] k = "neg" -> ArrNeg(g)

\* A Sub node that hands its rhs the gradient with the sign of its lhs.
RhsContributionUnsigned(k, g, lv, rv) ==
    CASE k = "sub" -> g
      [] k = "mul" -> ArrMul(lv, g)

RhsContribution(k, g, lv, rv) ==
    CASE k = "sub" -> ArrNeg(g)
      [] k = "mul" -> ArrMul(lv, g)

\* Set overwrites the buffer, Increment adds into it.
Accumulated(action, buffer, contribution) ==
    IF action = "Set" THEN contribution ELSE ArrAdd(buffer, contribution)

\* The operand-gradient buffers of node n after a backward call with g.
UpdateGradients(s, n, g, action) ==
    LET k == Kind(n)
        lv == Val(s, graph[n].lhs)
        rv == IF k \in BinaryKinds THEN Val(s, graph[n].rhs) ELSE None
        s1 == [s EXCEPT !.lgrad[n] = Accumulated(action, @, LhsContribution(k, g, lv, rv))]
        stacked == IF graph[n].axis = 0
                   THEN RowWiseStackGradient(g, s.lgrad[n], s.rgrad[n], action)
                   ELSE ColumnWiseStackGradient(g, s.lgrad[n], s.rgrad[n], action)
    IN  IF k = "concat"
        THEN [s EXCEPT !.lgrad[n] = stacked.lhs, !.rgrad[n] = stacked.rhs]
        ELSE IF k = "logsoftmax"
        THEN [s EXCEPT !.lgrad[n] = LogSoftmaxGradient(action, @, g, s.value[n])]
        ELSE IF k \in {"sub", "mul"}
        THEN [s1 EXCEPT !.rgrad[n] = Accumulated(action, @, RhsContribution(k, g, lv, rv))]
        ELSE s1

\* The gradient buffer a node hands to its rhs operand: AddNode has a single
\* buffer for both operands.
RhsBuffer(s, n) == IF Kind(n) = "add" THEN s.lgrad[n] ELSE s.rgrad[n]

\* The value cell of node n after an evaluating forward has written it.
Forwarded(n, old, l, r) ==
    CASE Kind(n) = "add" -> ZipAdd(old, l, r)
      [] Kind(n) = "concat" ->
            IF graph[n].axis = 0 THEN RowWiseStack(old, l, r)
            ELSE ColumnWiseStack(old, l, r)
      [] OTHER -> Compute(Kind(n), l, r)

RECURSIVE NodeForward(_, _, _)
\* A forward that recomputes the value before its operands are forced.
NodeForwardStale(s, n, d) ==
    IF s.aborted THEN s
    ELSE IF ~IsOperator(n) THEN Logged(s, Event("forward", n, d, 0, None))
    ELSE
      LET count == s.fc[n]
          s1 == [Logged(s, Event("forward", n, d, count, None)) EXCEPT !.fc[n] = count + 1]
      IN  IF ForwardAction(count) = "Cached" THEN s1
          ELSE IF Kind(n) = "index"
          THEN LET idx == s1.value[graph[n].rhs]
                   s2 == [s1 EXCEPT !.idxval[n] = idx,
                                    !.value[n] = SelectRows(@, Val(s1, graph[n].lhs), idx)]
               IN  Logged(s2, Event("eval", n, d + 1, 0, None))
          ELSE LET l == Val(s1, graph[n].lhs)
                   r == IF Kind(n) \in BinaryKinds THEN Val(s1, graph[n].rhs) ELSE None
                   s2 == [s1 EXCEPT !.value[n] = Compute(Kind(n), l, r)]
                   s3 == NodeForward(s2, graph[n].lhs, d + 1)
                   s4 == IF Kind(n) \in BinaryKinds
                         THEN NodeForward(s3, graph[n].rhs, d + 1) ELSE s3
               IN  Logged(s4, Event("eval", n, d + 1, 0, None))

NodeForward(s, n, d) ==
    IF s.aborted THEN s
    ELSE IF ~IsOperator(n) THEN Logged(s, Event("forward", n, d, 0, None))
    ELSE
      LET count == s.fc[n]
          s1 == [Logged(s, Event("forward", n, d, count, None)) EXCEPT !.fc[n] = count + 1]
      IN  IF ForwardAction(count) = "Cached" THEN s1
          ELSE IF Kind(n) = "index"
          THEN LET idx == s1.value[graph[n].rhs]
                   s2 == [s1 EXCEPT !.idxval[n] = idx]
               IN  IF IndexAssertFails(s2.value[n], idx) THEN Panic(s2)
                   ELSE Logged([s2 EXCEPT !.value[n] =
                                              SelectRows(@, Val(s2, graph[n].lhs), idx)],
                               Event("eval", n, d + 1, 0, None))
          ELSE LET s2 == NodeForward(s1, graph[n].lhs, d + 1)
                   s3 == IF Kind(n) \in BinaryKinds
                         THEN NodeForward(s2, graph[n].rhs, d + 1) ELSE s2
                   l == Val(s3, graph[n].lhs)
                   r == IF Kind(n) \in BinaryKinds THEN Val(s3, graph[n].rhs) ELSE None
               IN  IF s3.aborted THEN s3
                   ELSE IF Kind(n) = "add" /\ ShapeAssertFails(l, r, s3.value[n])
                   THEN Panic(s3)
                   ELSE IF Kind(n) = "concat" /\ graph[n].axis \notin {0, 1}
                   THEN Panic(s3)
                   ELSE Logged([s3 EXCEPT !.value[n] = Forwarded(n, @, l, r)],
                               Event("eval", n, d + 1, 0, None))

\* A backward that reads the list the index input holds now.
IndexValueOfInput(s, n) == s.value[graph[n].rhs]

\* self.index_value.borrow() of IndexNode::backward: the list the last
\* evaluating forward (or the constructor) copied from the index input.
IndexValue(s, n) == s.idxval[n]

RECURSIVE NodeBackward(_, _, _, _)
NodeBackward(s, n, g, d) ==
    IF s.aborted THEN s
    ELSE IF Kind(n) = "param"
    THEN AccumulateDense(Logged(s, Event("backward", n, d, 0, g)), n, g)
    ELSE IF ~IsOperator(n) THEN Logged(s, Event("backward", n, d, 0, g))
    ELSE IF Kind(n) = "concat" /\ graph[n].axis \notin {0, 1}
    THEN Panic(Logged(s, Event("backward", n, d, s.bc[n], g)))
    ELSE
      LET count == s.bc[n]
          s1 == [Logged(s, Event("backward", n, d, count, g)) EXCEPT !.bc[n] = count + 1]
      IN  IF Kind(n) = "index"
          THEN AccumulateSparse(s1, graph[n].lhs, IndexValue(s1, n), g)
          ELSE
            LET s2 == UpdateGradients(s1, n, g, BackwardAction(count))
            IN  IF ~RecurseAssertHolds(s2.fc[n], s2.bc[n]) THEN Panic(s2)
                ELSE IF ~RecurseBackward(s2.fc[n], s2.bc[n]) THEN s2
                ELSE LET s3 == NodeBackward(s2, graph[n].lhs, s2.lgrad[n], d + 1)
                     IN  IF Kind(n) \in BinaryKinds
                         THEN NodeBackward(s3, graph[n].rhs, RhsBuffer(s3, n), d + 1)
                         ELSE s3

RECURSIVE NodeZeroGradient(_, _, _)
NodeZeroGradient(s, n, d) ==
    IF s.aborted THEN s
    ELSE IF Kind(n) = "param"
    THEN AccumulatorZero(Logged(s, Event("zero", n, d, 0, None)), n)
    ELSE IF ~IsOperator(n) THEN Logged(s, Event("zero", n, d, 0, None))
    ELSE
      LET s1 == Logged(s, Event("zero", n, d, s.fc[n], None))
      IN  IF IsZeroPanics(s1.fc[n], s1.bc[n]) THEN Panic(s1)
          ELSE IF IsZero(s1.fc[n], s1.bc[n]) THEN s1
          ELSE LET s2 == NodeZeroGradient(s1, graph[n].lhs, d + 1)
                   s3 == IF Kind(n) \in BinaryKinds
                         THEN NodeZeroGradient(s2, graph[n].rhs, d + 1) ELSE s2
               IN  IF s3.aborted THEN s3
                   ELSE PassCounterClear(s3, n)

\* A zero_counter that does what zero_gradient does.
ZeroCounterAsZeroGradient(s, n) == NodeZeroGradient(s, n, 0)

\* LogSoftmaxNode::zero_counter: counter.clear() and nothing else.
NodeZeroCounter(s, n) == PassCounterClear(Logged(s, Event("zero_counter", n, 0, s.fc[n], None)), n)

\* ------------------------------------------------------------------ construction
\* Values the constructors are given for the leaves.
DefaultLeaf == ArrOf(1, 1)
DefaultIndex == [i \in 1..Rows |-> 0]

\* The cached value a constructor computes from the operands' current values.
InitialValue(s, d) ==
    CASE d.kind = "param" -> None
      [] d.kind = "input" -> DefaultLeaf
      [] d.kind = "idxinput" -> DefaultIndex
      [] d.kind = "index" ->
            LET idx == s.value[d.rhs]
            IN  [i \in 1..Len(idx) |-> Val(s, d.lhs)[idx[i] + 1]]
      [] d.kind = "concat" -> Stack(d.axis, Val(s, d.lhs), Val(s, d.rhs))
      [] OTHER -> Compute(d.kind, Val(s, d.lhs),
                          IF d.kind \in BinaryKinds THEN Val(s, d.rhs) ELSE None)

\* A flag that is the conjunction of the operands' flags.
NeedsGradientOfAll(s, d) ==
    CASE d.kind = "param" -> TRUE
      [] d.kind \in {"input", "idxinput"} -> FALSE
      [] d.kind \in BinaryKinds -> s.needs[d.lhs] /\ s.needs[d.rhs]
      [] OTHER -> s.needs[d.lhs]

\* needs_gradient as the constructors compute it: true for a parameter, false
\* for the input leaves, lhs || rhs for the binary nodes, the operand's flag
\* for the unary nodes and for IndexNode.
NeedsGradient(s, d) ==
    CASE d.kind = "param" -> TRUE
      [] d.kind \in {"input", "idxinput"} -> FALSE
      [] d.kind \in BinaryKinds -> s.needs[d.lhs] \/ s.needs[d.rhs]
      [] OTHER -> s.needs[d.lhs]

\* The state after the constructor of node d has run on state s.
Built(s, d) ==
    LET v == InitialValue(s, d)
        op == d.kind \in OperatorKinds
        shared == d.kind = "param" /\ d.store # Len(s.fc) + 1
        s0 == IF shared THEN AsPtr(s, d.store) ELSE s
    IN  [fc |-> Append(s.fc, 0),
         bc |-> Append(s.bc, 0),
         value |-> Append(s.value, v),
         needs |-> Append(s.needs, NeedsGradient(s, d)),
         lgrad |-> Append(s.lgrad, IF d.kind \in {"softmax", "concat"}
                                   THEN ZerosLike(Val(s, d.lhs))
                                   ELSE IF d.kind = "logsoftmax"
                                   THEN [r \in DOMAIN v |-> [c \in DOMAIN v[r] |-> <<0, 1>>]]
                                   ELSE IF op THEN ZerosLike(v) ELSE None),
         rgrad |-> Append(s.rgrad, IF d.kind = "concat" THEN ZerosLike(Val(s, d.rhs))
                                   ELSE IF d.kind \in {"sub", "mul"} THEN ZerosLike(v)
                                   ELSE None),
         idxval |-> Append(s.idxval, IF d.kind = "index" THEN s.value[d.rhs] ELSE <<>>),
         dense |-> Append(s.dense, None),
         has_dense |-> Append(s.has_dense, FALSE),
         slen |-> Append(s.slen, 0),
         sdata |-> Append(s.sdata, <<>>),
         pushed |-> Append(s.pushed, <<>>),
         hogwild |-> Append(s.hogwild, IF d.kind = "param" /\ d.store = Len(s.fc) + 1
                                       THEN DefaultLeaf ELSE None),
         borrows |-> Append(s0.borrows, 0),
         aborted |-> s0.aborted,
         log |-> <<>>]

Empty ==
    [fc |-> <<>>, bc |-> <<>>, value |-> <<>>, needs |-> <<>>, lgrad |-> <<>>, rgrad |-> <<>>,
     idxval |-> <<>>, dense |-> <<>>, has_dense |-> <<>>, slen |-> <<>>,
     sdata |-> <<>>, pushed |-> <<>>, hogwild |-> <<>>, borrows |-> <<>>,
     aborted |-> FALSE, log |-> <<>>]

RECURSIVE BuiltGraph(_, _)
BuiltGraph(g, n) ==
    IF n = 0 THEN Empty
    ELSE CHOOSE b \in {Built(s, g[n]) : s \in {BuiltGraph(g, n - 1)}} : TRUE

NoCall == [op |-> "none", node |-> 0, grad |-> None]
Call(op, n, g) == [op |-> op, node |-> n, grad |-> g]

NodeInit(s) ==
    /\ forward_count = s.fc
    /\ backward_count = s.bc
    /\ value = s.value
    /\ needs_gradient = s.needs
    /\ lhs_gradient = s.lgrad
    /\ rhs_gradient = s.rgrad
    /\ index_value = s.idxval
    /\ dense_gradient = s.dense
    /\ has_dense = s.has_dense
    /\ sparse_len = s.slen
    /\ sparse_data = s.sdata
    /\ pushed = s.pushed
    /\ hogwild = s.hogwild
    /\ value_borrows = s.borrows
    /\ aborted = s.aborted
    /\ log = s.log

\* Nothing is built yet, or one of two graphs of four nodes is.
Init ==
    /\ graph \in {<<>>, SubCounterGraph, CubePlusSquareGraph}
    /\ debug \in BOOLEAN
    /\ NodeInit(BuiltGraph(graph, Len(graph)))
    /\ pc = "build"
    /\ round = 0
    /\ calls = 0
    /\ last = NoCall
    /\ returned = None

\* A constructor adds a node over operands that exist.
Construct(d) ==
    /\ pc = "build"
    /\ Len(graph) < MaxNodes
    /\ graph' = Append(graph, d)
    /\ Unpack(Built(Pack, d))
    /\ UNCHANGED <<debug, clientVars>>

Build == \E d \in NodeChoices(graph) : Construct(d)

\* ------------------------------------------------------------------ client calls
\* The effect of a client's call on node n, the log holding that call alone.
Fresh == [Pack EXCEPT !.log = <<>>]

DoForward(n) == Unpack(NodeForward(Fresh, n, 0))
DoBackward(n, g) == Unpack(NodeBackward(Fresh, n, g, 0))
DoZeroGradient(n) == Unpack(NodeZeroGradient(Fresh, n, 0))

\* A client replaces the value of an input leaf (InputNode.value is public).
DoSetInput(n, v) ==
    /\ Kind(n) = "input"
    /\ value[n] # v
    /\ Unpack([Fresh EXCEPT !.value[n] = v])

\* A client replaces the list of an index input leaf.
DoSetIndex(n, iv) ==
    /\ Kind(n) = "idxinput"
    /\ value[n] # iv
    /\ Unpack([Fresh EXCEPT !.value[n] = iv])

\* The optimizer writes a parameter's value through value_mut.
DoWriteStore(p, v) ==
    /\ Kind(p) = "param"
    /\ hogwild[graph[p].store] # v
    /\ Unpack([AsPtr(Fresh, graph[p].store) EXCEPT !.hogwild[graph[p].store] = v])

\* ---- a client that makes any call on any node, in any order
Running == ~aborted /\ Len(graph) >= 1 /\ calls < MaxCalls

Made(c) ==
    /\ pc' = "free"
    /\ calls' = calls + 1
    /\ last' = c
    /\ returned' = None
    /\ UNCHANGED <<graph, debug, round>>

Forward(n) == Running /\ DoForward(n) /\ Made(Call("forward", n, None))

Backward(n, g) == Running /\ DoBackward(n, g) /\ Made(Call("backward", n, g))

ZeroGradient(n) == Running /\ DoZeroGradient(n) /\ Made(Call("zero", n, None))

SetInput(n, v) == Running /\ DoSetInput(n, v) /\ Made(Call("write", n, None))

SetIndex(n, iv) == Running /\ DoSetIndex(n, iv) /\ Made(Call("write", n, None))

WriteStore(p, v) == Running /\ DoWriteStore(p, v) /\ Made(Call("write", p, None))

\* A client reads the value of node n.
Value(n) ==
    /\ Running
    /\ Unpack(IF Kind(n) = "param" THEN AsPtr(Fresh, graph[n].store) ELSE Fresh)
    /\ pc' = "free"
    /\ calls' = calls + 1
    /\ last' = Call("value", n, None)
    /\ returned' = NodeValue(Pack, n)
    /\ UNCHANGED <<graph, debug, round>>

Next ==
    \/ Build
    \/ \E n \in Nodes : Forward(n)
    \/ \E n \in Nodes, g \in GradVals : Backward(n, g)
    \/ \E n \in Nodes : ZeroGradient(n)
    \/ \E n \in Nodes, v \in LeafVals : SetInput(n, v)
    \/ \E n \in Nodes, iv \in IdxVals : SetIndex(n, iv)
    \/ \E p \in Nodes, v \in LeafVals : WriteStore(p, v)
    \/ \E n \in Nodes : Value(n)

Spec == Init /\ [][Next]_vars

\* ---- a client that drives rounds on the root: write the leaves, forward,
\* ---- backward with a seed gradient, zero_gradient
RoundStep(p, r, c) ==
    /\ pc' = p
    /\ round' = r
    /\ last' = c
    /\ returned' = None
    /\ UNCHANGED <<graph, debug, calls>>

AtStart == ~aborted /\ Len(graph) >= 1 /\ pc \in {"build", "start"}

RoundSetInput(n, v) ==
    AtStart /\ DoSetInput(n, v) /\ RoundStep("start", round, Call("write", n, None))

RoundSetIndex(n, iv) ==
    AtStart /\ DoSetIndex(n, iv) /\ RoundStep("start", round, Call("write", n, None))

RoundWriteStore(p, v) ==
    AtStart /\ DoWriteStore(p, v) /\ RoundStep("start", round, Call("write", p, None))

RoundForward ==
    /\ AtStart
    /\ round < MaxRounds
    /\ DoForward(Root)
    /\ RoundStep("forwarded", round + 1, Call("forward", Root, None))

RoundBackward(g) ==
    /\ ~aborted
    /\ pc = "forwarded"
    /\ DoBackward(Root, g)
    /\ RoundStep("backwarded", round, Call("backward", Root, g))

RoundZeroGradient ==
    /\ ~aborted
    /\ pc = "backwarded"
    /\ DoZeroGradient(Root)
    /\ RoundStep("start", round, Call("zero", Root, None))

NextRound ==
    \/ Build
    \/ \E n \in Nodes, v \in LeafVals : RoundSetInput(n, v)
    \/ \E n \in Nodes, iv \in IdxVals : RoundSetIndex(n, iv)
    \/ \E p \in Nodes, v \in LeafVals : RoundWriteStore(p, v)
    \/ RoundForward
    \/ \E g \in GradVals : RoundBackward(g)
    \/ RoundZeroGradient

SpecRound == Init /\ [][NextRound]_vars

\* ---- a client that calls forward and backward on the root and writes the
\* ---- input leaves in any order and never calls zero_gradient; last.trace
\* ---- holds its calls so far, the last one included
Trace == IF calls = 0 THEN <<>> ELSE last.trace

RepeatRunning == ~aborted /\ Len(graph) >= 1 /\ calls < MaxRepeatCalls

RepeatStep(c) ==
    /\ pc' = "repeat"
    /\ calls' = calls + 1
    /\ last' = [op |-> c.op, node |-> c.node, grad |-> c.grad, trace |-> Append(Trace, c)]
    /\ returned' = None
    /\ UNCHANGED <<graph, debug, round>>

RepeatSetInput(n, v) ==
    RepeatRunning /\ DoSetInput(n, v) /\ RepeatStep(Call("write", n, None))

RepeatSetIndex(n, iv) ==
    RepeatRunning /\ DoSetIndex(n, iv) /\ RepeatStep(Call("write", n, None))

RepeatForward ==
    RepeatRunning /\ DoForward(Root) /\ RepeatStep(Call("forward", Root, None))

RepeatBackward(g) ==
    RepeatRunning /\ DoBackward(Root, g) /\ RepeatStep(Call("backward", Root, g))

NextRepeat ==
    \/ Build
    \/ \E n \in Nodes, v \in LeafVals : RepeatSetInput(n, v)
    \/ \E n \in Nodes, iv \in IdxVals : RepeatSetIndex(n, iv)
    \/ RepeatForward
    \/ \E g \in GradVals : RepeatBackward(g)

SpecRepeat == Init /\ [][NextRepeat]_vars

\* ---- a lone GradientAccumulator (of one parameter node) and its callers
InitAcc ==
    /\ graph = <<Leaf("param", 1)>>
    /\ debug \in BOOLEAN
    /\ NodeInit(BuiltGraph(graph, Len(graph)))
    /\ pc = "acc"
    /\ round = 0
    /\ calls = 0
    /\ last = NoCall
    /\ returned = None

ClampBounds == {-1, 0, 1}

AccStep(c) ==
    /\ calls < MaxAccOps
    /\ calls' = calls + 1
    /\ last' = c
    /\ returned' = None
    /\ UNCHANGED <<graph, debug, pc, round>>

\* ParameterNode::backward: a dense gradient.
AccDense(g) == DoBackward(1, g) /\ AccStep(Call("dense", 1, g))

\* The sparse accumulate_gradient, as IndexNode::backward calls it.
AccSparse(idx, g) ==
    Unpack(AccumulateSparse(Fresh, 1, idx, g)) /\ AccStep(Call("sparse", 1, g))

AccClamp(min, max) ==
    Unpack(AccumulatorClamp(Fresh, 1, min, max)) /\ AccStep(Call("clamp", 1, None))

\* ParameterNode::zero_gradient.
AccZero == DoZeroGradient(1) /\ AccStep(Call("zero", 1, None))

NextAcc ==
    \/ \E g \in GradVals : AccDense(g)
    \/ \E idx \in IdxVals, g \in GradVals : AccSparse(idx, g)
    \/ \E min \in ClampBounds, max \in ClampBounds : AccClamp(min, max)
    \/ AccZero

SpecAcc == InitAcc /\ [][NextAcc]_vars

\* ---- Concatenate nodes built over a parameter and an input leaf and over
\* ---- each other, and a client that calls forward, backward (with a gradient
\* ---- of the shape of the node's value) and zero_gradient on them and writes
\* ---- the leaves
ConcatAxes == {0, 1, 2}

\* Gradients of the shape of v.
GradsLike(v) ==
    {[r \in DOMAIN v |-> [c \in DOMAIN v[r] |-> k[1] * r + 3 * c + k[2]]] :
        k \in {<<1, 0>>, <<-1, 2>>}}

InitConcat ==
    /\ graph = <<NewParameter(1), Leaf("input", 0)>>
    /\ debug \in BOOLEAN
    /\ \E v \in LeafVals : NodeInit([BuiltGraph(graph, Len(graph)) EXCEPT !.value[2] = v])
    /\ pc = "build"
    /\ round = 0
    /\ calls = 0
    /\ last = NoCall
    /\ returned = None

\* ConcatenateNode::new(l, r, axis): stack(...).expect(...) panics when the
\* arrays cannot be stacked, and no node is made.
ConcatConstruct(axis, l, r) ==
    /\ ~aborted
    /\ pc = "build"
    /\ Len(graph) < MaxConcatNodes
    /\ IF StackFails(axis, Val(Pack, l), Val(Pack, r))
       THEN /\ graph' = graph
            /\ Unpack(Panic(Fresh))
            /\ last' = [op |-> "construct", node |-> 0, grad |-> None, axis |-> axis]
       ELSE /\ graph' = Append(graph, Concatenate(axis, l, r))
            /\ Unpack(Built(Fresh, Concatenate(axis, l, r)))
            /\ last' = [op |-> "construct", node |-> Len(graph) + 1, grad |-> None,
                        axis |-> axis]
    /\ UNCHANGED <<debug, pc, round, calls, returned>>

ConcatNodes == {n \in Nodes : Kind(n) = "concat"}

NextConcat ==
    \/ \E axis \in ConcatAxes, l \in Nodes, r \in Nodes : ConcatConstruct(axis, l, r)
    \/ \E n \in ConcatNodes : Forward(n)
    \/ \E n \in ConcatNodes : \E g \in GradsLike(value[n]) : Backward(n, g)
    \/ \E n \in ConcatNodes : ZeroGradient(n)
    \/ \E n \in Nodes, v \in LeafVals : SetInput(n, v)
    \/ \E p \in Nodes, v \in LeafVals : WriteStore(p, v)

SpecConcat == InitConcat /\ [][NextConcat]_vars

\* ---- an Add, an Index or a Concatenate (axis 0) node over two leaves, and
\* ---- a client that replaces the value of an input leaf, or the list of an
\* ---- index input, by one with another number of rows
ShapeGraphs ==
    { <<Leaf("input", 0), Leaf("input", 0), Operator("add", 1, 2)>>,
      <<NewParameter(1), Leaf("idxinput", 0), Operator("index", 1, 2)>>,
      <<Leaf("input", 0), Leaf("input", 0), Concatenate(0, 1, 2)>> }

\* Arrays of 1 to Rows + 1 rows, and index lists of 1 to Rows + 1 entries.
ShapeVals ==
    {[r \in 1..n |-> [c \in 1..Cols |-> k[1] * r + k[2]]] :
        n \in 1..(Rows + 1), k \in {<<1, 0>>, <<-1, 4>>}}
ShapeIdxVals == {[i \in 1..n |-> k] : n \in 1..(Rows + 1), k \in 0..1}

InitShape ==
    /\ graph \in ShapeGraphs
    /\ debug \in BOOLEAN
    /\ NodeInit(BuiltGraph(graph, Len(graph)))
    /\ pc = "build"
    /\ round = 0
    /\ calls = 0
    /\ last = NoCall
    /\ returned = None

NextShape ==
    \/ \E n \in Nodes, v \in ShapeVals : SetInput(n, v)
    \/ \E n \in Nodes, iv \in ShapeIdxVals : SetIndex(n, iv)
    \/ Forward(Root)
    \/ \E g \in GradsLike(value[Root]) : Backward(Root, g)
    \/ ZeroGradient(Root)

SpecShape == InitShape /\ [][NextShape]_vars

\* ---- a lone SoftmaxNode over an input leaf of any shape, and a client that
\* ---- writes the input (keeping its shape) and calls forward and
\* ---- zero_gradient on the node
SoftmaxVals == {0, 1, 3}
SoftmaxInputs ==
    UNION {[1..r -> [1..c -> SoftmaxVals]] : r \in 1..Rows, c \in 1..MaxSoftmaxCols}

InitSoftmax ==
    /\ graph = <<Leaf("input", 0), Operator("softmax", 1, 0)>>
    /\ debug \in BOOLEAN
    /\ \E v \in SoftmaxInputs :
          NodeInit(Built([BuiltGraph(graph, 1) EXCEPT !.value[1] = v], graph[2]))
    /\ pc = "softmax"
    /\ round = 0
    /\ calls = 0
    /\ last = NoCall
    /\ returned = None

SoftmaxStep(c) ==
    /\ ~aborted
    /\ calls < MaxCalls
    /\ calls' = calls + 1
    /\ last' = c
    /\ returned' = None
    /\ UNCHANGED <<graph, debug, pc, round>>

SoftmaxSetInput(v) ==
    /\ Len(v) = Len(value[1])
    /\ Len(v[1]) = Len(value[1][1])
    /\ DoSetInput(1, v)
    /\ SoftmaxStep(Call("write", 1, None))

SoftmaxForward == DoForward(2) /\ SoftmaxStep(Call("forward", 2, None))

SoftmaxZeroGradient == DoZeroGradient(2) /\ SoftmaxStep(Call("zero", 2, None))

NextSoftmax ==
    \/ \E v \in SoftmaxInputs : SoftmaxSetInput(v)
    \/ SoftmaxForward
    \/ SoftmaxZeroGradient

SpecSoftmax == InitSoftmax /\ [][NextSoftmax]_vars

\* ---- a LogSoftmaxNode over an input leaf, or over an Index node of a
\* ---- parameter, and a client that writes the leaves and calls forward,
\* ---- backward, zero_gradient and zero_counter on the LogSoftmax node
LogSoftmaxGraphs ==
    { <<Leaf("input", 0), Operator("logsoftmax", 1, 0)>>,
      <<NewParameter(1), Leaf("idxinput", 0), Operator("index", 1, 2),
        Operator("logsoftmax", 3, 0)>> }

InitLogSoftmax ==
    /\ graph \in LogSoftmaxGraphs
    /\ debug \in BOOLEAN
    /\ NodeInit(BuiltGraph(graph, Len(graph)))
    /\ pc = "logsoftmax"
    /\ round = 0
    /\ calls = 0
    /\ last = NoCall
    /\ returned = None

LogSoftmaxStep(c) ==
    /\ ~aborted
    /\ calls < MaxLogSoftmaxCalls
    /\ calls' = calls + 1
    /\ last' = c
    /\ returned' = None
    /\ UNCHANGED <<graph, debug, pc, round>>

LogSoftmaxSetInput(n, v) == DoSetInput(n, v) /\ LogSoftmaxStep(Call("write", n, None))

LogSoftmaxSetIndex(n, iv) == DoSetIndex(n, iv) /\ LogSoftmaxStep(Call("write", n, None))

LogSoftmaxWriteStore(p, v) == DoWriteStore(p, v) /\ LogSoftmaxStep(Call("write", p, None))

LogSoftmaxForward == DoForward(Root) /\ LogSoftmaxStep(Call("forward", Root, None))

LogSoftmaxBackward(g) == DoBackward(Root, g) /\ LogSoftmaxStep(Call("backward", Root, g))

LogSoftmaxZeroGradient == DoZeroGradient(Root) /\ LogSoftmaxStep(Call("zero", Root, None))

LogSoftmaxZeroCounter ==
    /\ Unpack(NodeZeroCounter(Fresh, Root))
    /\ LogSoftmaxStep(Call("zero_counter", Root, None))

NextLogSoftmax ==
    \/ \E n \in Nodes, v \in LeafVals : LogSoftmaxSetInput(n, v)
    \/ \E n \in Nodes, iv \in IdxVals : LogSoftmaxSetIndex(n, iv)
    \/ \E p \in Nodes, v \in LeafVals : LogSoftmaxWriteStore(p, v)
    \/ LogSoftmaxForward
    \/ \E g \in GradsLike(value[Root]) : LogSoftmaxBackward(g)
    \/ LogSoftmaxZeroGradient
    \/ LogSoftmaxZeroCounter

SpecLogSoftmax == InitLogSoftmax /\ [][NextLogSoftmax]_vars

\* ---- two workers, each with a graph of its own over the store of
\* ---- parameter 1, shared through ParameterNode::shared.  A worker drives
\* ---- rounds on its root: forward, backward, then its optimizer step
\* ---- (writes to the parameter values, one row at a time, unsynchronized),
\* ---- then zero_gradient; it may read a parameter's value at any time.
\* Both workers build the same model.  A worker's graph, with the node ids
\* relative to the graph: the first node is the shared parameter (store 0
\* stands for the shared store), a parameter with another store is made by
\* ParameterNode::new.
WorkerTemplates ==
    { <<Leaf("param", 0), Operator("mul", 1, 1)>>,
      <<Leaf("param", 0), Leaf("input", 0), Operator("mul", 2, 1)>>,
      <<Leaf("param", 0), Leaf("param", 2), Operator("mul", 1, 2)>>,
      <<Leaf("param", 0), Leaf("idxinput", 0), Operator("index", 1, 2)>>,
      <<Leaf("param", 0), Operator("add", 1, 1), Operator("sub", 2, 2)>>,
      <<Leaf("param", 0), Operator("neg", 1, 0), Operator("add", 2, 2)>> }

\* The nodes a worker builds from template t after off nodes exist.
WorkerGraph(t, off) ==
    [i \in DOMAIN t |->
        IF t[i].kind = "param"
        THEN IF t[i].store = 0 THEN SharedParameter(1, off + i) ELSE NewParameter(off + i)
        ELSE IF t[i].kind \in LeafKinds THEN t[i]
        ELSE Operator(t[i].kind, t[i].lhs + off,
                      IF t[i].rhs = 0 THEN 0 ELSE t[i].rhs + off)]

Workers == {1, 2}
\* The values an optimizer step writes.
StepVals == {ArrOf(-1, 4)}
Other(w) == 3 - w

\* The first node of the second worker: the first leaf that follows an
\* operator node.
SecondStart ==
    CHOOSE n \in 2..Len(graph) :
        /\ graph[n].kind \in LeafKinds
        /\ graph[n - 1].kind \in OperatorKinds
        /\ \A m \in 2..(n - 1) :
              ~(graph[m].kind \in LeafKinds /\ graph[m - 1].kind \in OperatorKinds)

WorkerNodes(w) == IF w = 1 THEN 1..(SecondStart - 1) ELSE SecondStart..Len(graph)
WorkerRoot(w) == IF w = 1 THEN SecondStart - 1 ELSE Len(graph)
\* The parameter node each worker made with ParameterNode::shared.
SharedNode(w) == IF w = 1 THEN 1 ELSE SecondStart
Owner(n) == IF n < SecondStart THEN 1 ELSE 2

InitWorkers ==
    /\ graph \in {WorkerGraph(t, 0) \o WorkerGraph(t, Len(t)) : t \in WorkerTemplates}
    /\ debug \in BOOLEAN
    /\ NodeInit(BuiltGraph(graph, Len(graph)))
    /\ pc = [w \in Workers |-> "start"]
    /\ round = [w \in Workers |-> 0]
    /\ calls = 0
    /\ last = NoCall
    /\ returned = None

WorkerStep(w, p, c, r) ==
    /\ pc' = [pc EXCEPT ![w] = p]
    /\ last' = c
    /\ returned' = r
    /\ UNCHANGED <<graph, debug, calls>>

WorkerForward(w) ==
    /\ ~aborted
    /\ pc[w] = "start"
    /\ round[w] < MaxWorkerRounds
    /\ DoForward(WorkerRoot(w))
    /\ round' = [round EXCEPT ![w] = @ + 1]
    /\ WorkerStep(w, "forwarded", Call("forward", WorkerRoot(w), None), None)

WorkerBackward(w, g) ==
    /\ ~aborted
    /\ pc[w] = "forwarded"
    /\ DoBackward(WorkerRoot(w), g)
    /\ UNCHANGED round
    /\ WorkerStep(w, "backwarded", Call("backward", WorkerRoot(w), g), None)

\* The optimizer step of worker w writes row r of the value of its parameter
\* node p through value_mut.
WorkerWriteRow(w, p, r, x) ==
    /\ ~aborted
    /\ pc[w] = "backwarded"
    /\ p \in WorkerNodes(w)
    /\ Kind(p) = "param"
    /\ hogwild[graph[p].store][r] # x
    /\ Unpack(StoreWriteRow(AsPtr(Fresh, graph[p].store), graph[p].store, r, x))
    /\ UNCHANGED round
    /\ WorkerStep(w, "backwarded",
                  [op |-> "write", node |-> p, grad |-> None, row |-> r, written |-> x],
                  None)

WorkerZeroGradient(w) ==
    /\ ~aborted
    /\ pc[w] = "backwarded"
    /\ DoZeroGradient(WorkerRoot(w))
    /\ UNCHANGED round
    /\ WorkerStep(w, "start", Call("zero", WorkerRoot(w), None), None)

\* Worker w reads the value of its parameter node p.
WorkerValue(w, p) ==
    /\ ~aborted
    /\ p \in WorkerNodes(w)
    /\ Kind(p) = "param"
    /\ Unpack(AsPtr(Fresh, graph[p].store))
    /\ UNCHANGED round
    /\ WorkerStep(w, pc[w], Call("value", p, None), NodeValue(Pack, p))

NextWorkers ==
    \/ \E w \in Workers : WorkerForward(w)
    \/ \E w \in Workers, g \in GradVals : WorkerBackward(w, g)
    \/ \E w \in Workers, p \in Nodes, r \in 1..Rows, v \in StepVals :
            WorkerWriteRow(w, p, r, v[r])
    \/ \E w \in Workers : WorkerZeroGradient(w)
    \/ \E w \in Workers, p \in Nodes : WorkerValue(w, p)

SpecWorkers == InitWorkers /\ [][NextWorkers]_vars

\* ---- a lone PassCounter (counter 1, of no node) and its caller; the log
\* ---- holds the forward and backward calls made since the last clear, and
\* ---- round counts the clears
InitCounter ==
    /\ graph = <<>>
    /\ debug \in BOOLEAN
    /\ NodeInit([Empty EXCEPT !.fc = <<0>>, !.bc = <<0>>])
    /\ pc = "counter"
    /\ round = 0
    /\ calls = 0
    /\ last = NoCall
    /\ returned = None

CounterStep(c, r) ==
    /\ calls' = calls + 1
    /\ last' = c
    /\ returned' = r
    /\ UNCHANGED <<graph, debug, pc>>

CounterRunning == ~aborted /\ calls < MaxCounterOps

\* PassCounter::forward.
CounterForward ==
    /\ CounterRunning
    /\ LET count == forward_count[1]
       IN  /\ Unpack([Logged(Pack, Event("forward", 1, 0, count, None))
                         EXCEPT !.fc[1] = count + 1])
           /\ CounterStep(Call("forward", 1, None), ForwardAction(count))
    /\ UNCHANGED round

\* PassCounter::backward.
CounterBackward ==
    /\ CounterRunning
    /\ LET count == backward_count[1]
       IN  /\ Unpack([Logged(Pack, Event("backward", 1, 0, count, None))
                         EXCEPT !.bc[1] = count + 1])
           /\ CounterStep(Call("backward", 1, None), BackwardAction(count))
    /\ UNCHANGED round

\* PassCounter::clear.
CounterClear ==
    /\ CounterRunning
    /\ Unpack(PassCounterClear(Fresh, 1))
    /\ CounterStep(Call("clear", 1, None), None)
    /\ round' = round + 1

\* PassCounter::recurse_backward: the assert, then the comparison.
CounterRecurseBackward ==
    /\ CounterRunning
    /\ IF RecurseAssertHolds(forward_count[1], backward_count[1])
       THEN /\ Unpack(Pack)
            /\ CounterStep(Call("recurse_backward", 1, None),
                           RecurseBackward(forward_count[1], backward_count[1]))
       ELSE /\ Unpack(Panic(Pack))
            /\ CounterStep(Call("recurse_backward", 1, None), None)
    /\ UNCHANGED round

\* PassCounter::is_zero: the debug assertion, then the comparison.
CounterIsZero ==
    /\ CounterRunning
    /\ IF IsZeroPanics(forward_count[1], backward_count[1])
       THEN /\ Unpack(Panic(Pack))
            /\ CounterStep(Call("is_zero", 1, None), None)
       ELSE /\ Unpack(Pack)
            /\ CounterStep(Call("is_zero", 1, None),
                           IsZero(forward_count[1], backward_count[1]))
    /\ UNCHANGED round

NextCounter ==
    \/ CounterForward
    \/ CounterBackward
    \/ CounterClear
    \/ CounterRecurseBackward
    \/ CounterIsZero

SpecCounter == InitCounter /\ [][NextCounter]_vars

\* ------------------------------------------------------------------ properties
Reach == IF Len(graph) = 0 THEN {} ELSE ReachableFrom(graph, Root)

EdgeCount(m, n) ==
    (IF graph[m].lhs = n THEN 1 ELSE 0) + (IF graph[m].rhs = n THEN 1 ELSE 0)

RECURSIVE InEdgesUpTo(_, _)
InEdgesUpTo(n, m) ==
    IF m = 0 THEN 0
    ELSE InEdgesUpTo(n, m - 1) + (IF m \in Reach THEN EdgeCount(m, n) ELSE 0)

\* The operand edges, with multiplicity, that lead to n from the consumers
\* reachable from the root; 1 for the root.
Multiplicity(n) == IF n = Root THEN 1 ELSE InEdgesUpTo(n, Len(graph))

\* The sum over the paths from n to p of the product of the edge signs.
RECURSIVE PathSum(_, _)
PathSum(n, p) ==
    IF n = p THEN 1
    ELSE CASE Kind(n) = "add" -> PathSum(graph[n].lhs, p) + PathSum(graph[n].rhs, p)
           [] Kind(n) = "sub" -> PathSum(graph[n].lhs, p) - PathSum(graph[n].rhs, p)
           [] Kind(n) = "neg" -> 0 - PathSum(graph[n].lhs, p)
           [] OTHER -> 0

\* The operator tables of the specification.
TableValue(n) ==
    LET l == Val(Pack, graph[n].lhs)
    IN  CASE Kind(n) = "add" -> [r \in DOMAIN l |-> [c \in DOMAIN l[r] |->
                                    l[r][c] + Val(Pack, graph[n].rhs)[r][c]]]
          [] Kind(n) = "sub" -> [r \in DOMAIN l |-> [c \in DOMAIN l[r] |->
                                    l[r][c] - Val(Pack, graph[n].rhs)[r][c]]]
          [] Kind(n) = "mul" -> [r \in DOMAIN l |-> [c \in DOMAIN l[r] |->
                                    l[r][c] * Val(Pack, graph[n].rhs)[r][c]]]
          [] Kind(n) = "neg" -> [r \in DOMAIN l |-> [c \in DOMAIN l[r] |-> 0 - l[r][c]]]
          [] Kind(n) = "index" ->
                [i \in DOMAIN value[graph[n].rhs] |-> l[value[graph[n].rhs][i] + 1]]

\* d(lhs) and d(rhs) of the table for an incoming gradient g.
TableLhs(n, g) ==
    CASE Kind(n) \in {"add", "sub"} -> g
      [] Kind(n) = "mul" -> [r \in DOMAIN g |-> [c \in DOMAIN g[r] |->
                                Val(Pack, graph[n].rhs)[r][c] * g[r][c]]]
      [] Kind(n) = "neg" -> [r \in DOMAIN g |-> [c \in DOMAIN g[r] |-> 0 - g[r][c]]]

TableRhs(n, g) ==
    CASE Kind(n) = "add" -> g
      [] Kind(n) = "sub" -> [r \in DOMAIN g |-> [c \in DOMAIN g[r] |-> 0 - g[r][c]]]
      [] Kind(n) = "mul" -> [r \in DOMAIN g |-> [c \in DOMAIN g[r] |->
                                Val(Pack, graph[n].lhs)[r][c] * g[r][c]]]

Shared(n) == IsOperator(n) /\ n \in Reach /\ Multiplicity(n) >= 2

\* C1: after one forward and one backward on the root from zeroed counters,
\* every operator node reachable from the root has forward_count =
\* backward_count = the number of operand edges that lead to it (1 for the
\* root); in the graph of test_sub_counter, y has both counts 3.
C1_RoundCounts ==
    pc = "backwarded" =>
        /\ \A n \in Reach : IsOperator(n) =>
              /\ forward_count[n] = Multiplicity(n)
              /\ backward_count[n] = Multiplicity(n)
        /\ graph = SubCounterGraph => forward_count[2] = 3 /\ backward_count[2] = 3

C1_Witness ==
    /\ pc = "backwarded"
    /\ graph = SubCounterGraph
    /\ forward_count[2] = 3
    /\ backward_count[2] = 3

\* C2: over Add, Sub and Neg nodes and parameter leaves, after a round with
\* seed g each parameter's dense gradient is g times the sum over the
\* root-to-parameter paths of the product of the edge signs.
SignedGraph == \A n \in Reach : Kind(n) \in {"param", "add", "sub", "neg"}

C2_PathGradients ==
    (pc = "backwarded" /\ SignedGraph) =>
        \A p \in Reach : IsParam(p) =>
            dense_gradient[p] =
                [r \in DOMAIN last.grad |-> [c \in DOMAIN last.grad[r] |->
                    PathSum(Root, p) * last.grad[r][c]]]

C2_Witness ==
    /\ pc = "backwarded"
    /\ SignedGraph
    /\ round = 2
    /\ \E p \in Reach : IsParam(p) /\ PathSum(Root, p) = 0 - 2
                        /\ dense_gradient[p] = ArrScale(0 - 2, last.grad)
    /\ ~IsZeroArr(last.grad)

\* C4: after root.forward() from zeroed counters, the cached value of every
\* reachable operator node is its operation applied to the current values of
\* its operands.
C4_ValuesCurrent ==
    pc = "forwarded" => \A n \in Reach : IsOperator(n) => value[n] = TableValue(n)

C4_Witness ==
    /\ pc = "forwarded"
    /\ \E n \in Reach : Shared(n) /\ value[n] = TableValue(n)
    /\ \E m \in Reach : Kind(m) \in {"param", "input"} /\ Val(Pack, m) # DefaultLeaf

VisibleSparse(p) == AsSlice(sparse_len[p], sparse_data[p])

\* C8: after a complete round and root.zero_gradient(), every reachable
\* operator node has both counts 0, and every reachable parameter's
\* accumulator has an all-zero dense buffer, has_dense false and no visible
\* sparse contribution.
C8_ZeroedAfterRound ==
    (pc = "start" /\ last.op = "zero") =>
        \A n \in Reach :
            /\ IsOperator(n) => forward_count[n] = 0 /\ backward_count[n] = 0
            /\ IsParam(n) =>
                  /\ dense_gradient[n] = None \/ IsZeroArr(dense_gradient[n])
                  /\ ~has_dense[n]
                  /\ VisibleSparse(n) = <<>>

C8_Witness ==
    /\ pc = "start"
    /\ last.op = "zero"
    /\ \E n \in Reach : Shared(n) /\ forward_count[n] = 0
    /\ \E p \in Reach : IsParam(p) /\ dense_gradient[p] # None /\ IsZeroArr(dense_gradient[p])

\* ---- the call log
\* The last entry made inside the call that made entry i.
ChildrenEnd(i) ==
    CHOOSE j \in i..Len(log) :
        /\ \A k \in (i + 1)..j : log[k].depth > log[i].depth
        /\ j = Len(log) \/ log[j + 1].depth <= log[i].depth

\* What the call of entry i did itself: the calls it made on other nodes and
\* the recomputation of its value, in order, as <<op, node, grad>>.
DirectChildren(i) ==
    LET inside == SubSeq(log, i + 1, ChildrenEnd(i))
        direct == SelectSeq(inside, LAMBDA e : e.depth = log[i].depth + 1)
    IN  [k \in DOMAIN direct |-> <<direct[k].op, direct[k].node, direct[k].grad>>]

\* The forward calls on the operands and the recomputation an evaluating
\* forward of node n makes.
EvaluatingForward(n) ==
    [k \in DOMAIN OperandSeq(graph, n) |-> <<"forward", OperandSeq(graph, n)[k], None>>]
        \o <<(<<"eval", n, None>>)>>

\* C3: within a round, a forward call on an operator node recomputes the value
\* and calls forward on the operands exactly when it moves the forward count
\* from 0 to 1; any other forward call of the round does neither.
C3_EvaluateOnFirstForward ==
    \A i \in DOMAIN log :
        (log[i].op = "forward" /\ IsOperator(log[i].node)) =>
            DirectChildren(i) =
                IF log[i].count = 0 THEN EvaluatingForward(log[i].node) ELSE <<>>

C3_Witness ==
    \E i \in DOMAIN log : \E j \in DOMAIN log :
        /\ i < j
        /\ log[i].op = "forward" /\ log[j].op = "forward"
        /\ log[i].node = log[j].node
        /\ Kind(log[i].node) \in BinaryKinds
        /\ log[i].count = 0 /\ DirectChildren(i) = EvaluatingForward(log[i].node)
        /\ log[j].count = 2 /\ DirectChildren(j) = <<>>
        /\ forward_count[log[i].node] = 3

\* The gradients node n has received by backward calls up to log entry i.
Received(n, i) ==
    LET calls_n == SelectSeq(SubSeq(log, 1, i),
                             LAMBDA e : e.op = "backward" /\ e.node = n)
    IN  [k \in DOMAIN calls_n |-> calls_n[k].grad]

RECURSIVE SumLhs(_, _)
SumLhs(n, gs) ==
    IF Len(gs) = 1 THEN TableLhs(n, gs[1])
    ELSE ArrAdd(SumLhs(n, SubSeq(gs, 1, Len(gs) - 1)), TableLhs(n, gs[Len(gs)]))

RECURSIVE SumRhs(_, _)
SumRhs(n, gs) ==
    IF Len(gs) = 1 THEN TableRhs(n, gs[1])
    ELSE ArrAdd(SumRhs(n, SubSeq(gs, 1, Len(gs) - 1)), TableRhs(n, gs[Len(gs)]))

\* The backward calls a node makes on its operands when it recurses, given
\* the gradients gs it received in the round.
Propagation(n, gs) ==
    IF Kind(n) \in BinaryKinds
    THEN <<(<<"backward", graph[n].lhs, SumLhs(n, gs)>>),
           (<<"backward", graph[n].rhs, SumRhs(n, gs)>>)>>
    ELSE <<(<<"backward", graph[n].lhs, SumLhs(n, gs)>>)>>

Recursions(n) ==
    {i \in DOMAIN log : log[i].op = "backward" /\ log[i].node = n /\ DirectChildren(i) # <<>>}

\* C5 as stated: in a round of one root forward and one root backward, every
\* operator node calls backward on its operands exactly once.
C5_EveryOperatorRecursesOnce ==
    pc = "backwarded" =>
        \A n \in Reach : IsOperator(n) => Cardinality(Recursions(n)) = 1

\* C5, amended: an operator node other than an Index node calls backward on its
\* operands exactly once in the round, on the backward call that makes its
\* backward count equal to its forward count and on no earlier one, passing
\* each operand the sum of the contributions of all the backward calls it
\* received; an Index node never calls backward on an operand.
C5_RecurseWhenDrained ==
    pc = "backwarded" =>
        /\ \A i \in DOMAIN log :
              (log[i].op = "backward" /\ IsOperator(log[i].node)) =>
                  DirectChildren(i) =
                      IF Kind(log[i].node) # "index"
                         /\ log[i].count + 1 = forward_count[log[i].node]
                      THEN Propagation(log[i].node, Received(log[i].node, i))
                      ELSE <<>>
        /\ \A n \in Reach : (IsOperator(n) /\ Kind(n) # "index") =>
              Cardinality(Recursions(n)) = 1

C5_Witness ==
    /\ pc = "backwarded"
    /\ round = 2
    /\ \E i \in DOMAIN log :
          /\ log[i].op = "backward"
          /\ Kind(log[i].node) \in {"sub", "mul"}
          /\ log[i].count = 1
          /\ forward_count[log[i].node] = 2
          /\ Received(log[i].node, i)[1] # Received(log[i].node, i)[2]
          /\ DirectChildren(i) = Propagation(log[i].node, Received(log[i].node, i))

\* C6: for an operator node with forward count >= 2 and no backward call yet in
\* the round, backward(g1) then backward(g2) leaves its operand-gradient
\* buffers as a single first backward(g1 + g2) would, whatever they held: the
\* first call of a round overwrites, the later ones add.
C6_SetThenIncrement ==
    \A n \in Nodes :
        (~aborted /\ IsOperator(n) /\ forward_count[n] >= 2 /\ backward_count[n] = 0) =>
            \A g1 \in GradVals, g2 \in GradVals :
                LET two == NodeBackward(NodeBackward(Pack, n, g1, 0), n, g2, 0)
                    one == NodeBackward(Pack, n, ArrAdd(g1, g2), 0)
                IN  /\ two.lgrad[n] = one.lgrad[n]
                    /\ two.rgrad[n] = one.rgrad[n]
                    /\ Kind(n) # "index" => one.lgrad[n] = TableLhs(n, ArrAdd(g1, g2))
                    /\ Kind(n) \in {"sub", "mul"} =>
                          one.rgrad[n] = TableRhs(n, ArrAdd(g1, g2))

\* A node that was left with buffers from an earlier round has received two
\* different gradients in this round and holds the contribution of their sum.
C6_Witness ==
    /\ pc = "backwarded"
    /\ round = 2
    /\ \E n \in Reach :
          /\ Kind(n) \in {"sub", "mul"}
          /\ forward_count[n] = 2
          /\ LET gs == Received(n, Len(log))
             IN  /\ Len(gs) = 2
                 /\ gs[1] # gs[2]
                 /\ lhs_gradient[n] = TableLhs(n, ArrAdd(gs[1], gs[2]))
                 /\ rhs_gradient[n] = TableRhs(n, ArrAdd(gs[1], gs[2]))
                 /\ ~IsZeroArr(lhs_gradient[n])

\* C7: on a fresh store or after clear(), as_slice() returns the pushed pairs,
\* one entry per push and in the order of the pushes.
C7_PushesVisible ==
    \A p \in Nodes : IsParam(p) => VisibleSparse(p) = pushed[p]

\* C9: right after a zero_gradient call on a GradientAccumulator, has_dense is
\* false, the sparse store's logical length is 0 and the dense buffer, if
\* allocated, is all zero, whatever calls came before.
C9_ZeroResets ==
    last.op = "zero" =>
        \A p \in Nodes : IsParam(p) =>
            /\ ~has_dense[p]
            /\ sparse_len[p] = 0
            /\ dense_gradient[p] = None \/ IsZeroArr(dense_gradient[p])

\* C10: in every state of a running program, backward_count <= forward_count
\* in every node's PassCounter.
C10_BackwardAtMostForward ==
    aborted \/ \A n \in Nodes : backward_count[n] <= forward_count[n]

\* The calls of kind op made on the lone counter since its last clear, the
\* last one excluded.
EarlierCalls(op) ==
    Cardinality({i \in 1..(Len(log) - 1) : log[i].op = op})

\* C11: PassCounter.forward() returns Evaluate exactly when no forward() call
\* was made since the last clear() (or since construction) and Cached
\* otherwise; backward() returns Set exactly when no backward() call was made
\* since the last clear() and Increment otherwise; clear() leaves both counts
\* 0; and no call other than clear() makes a count smaller.
C11_CounterContract ==
    /\ [](/\ last.op = "forward" =>
                returned = IF EarlierCalls("forward") = 0 THEN "Evaluate" ELSE "Cached"
          /\ last.op = "backward" =>
                returned = IF EarlierCalls("backward") = 0 THEN "Set" ELSE "Increment"
          /\ last.op = "clear" => forward_count[1] = 0 /\ backward_count[1] = 0)
    /\ [][last'.op # "clear" =>
              /\ forward_count'[1] >= forward_count[1]
              /\ backward_count'[1] >= backward_count[1]]_vars

\* After a clear, a backward call that comes after a forward call is the
\* first of its kind.
C11_Witness ==
    /\ pc = "counter"
    /\ round = 1
    /\ calls = 5
    /\ last.op = "backward"
    /\ returned = "Set"
    /\ forward_count[1] = 1
    /\ backward_count[1] = 1

\* ---- single client calls
\* The step is the client's call op on node n.
ClientCall(op, n) == calls' = calls + 1 /\ last'.op = op /\ last'.node = n

\* C12 as stated: a forward call on an operator node whose forward count is
\* not 0 leaves the node's value, gradient buffers and counters and the whole
\* state of its operands unchanged.
C12_CachedForwardNoOp ==
    [][\A n \in Nodes :
          (ClientCall("forward", n) /\ IsOperator(n) /\ forward_count[n] # 0) =>
              UNCHANGED <<forward_count, backward_count, value, needs_gradient,
                          lhs_gradient, rhs_gradient, index_value, dense_gradient,
                          has_dense, sparse_len, sparse_data, pushed, hogwild,
                          aborted>>]_vars

\* C12, amended: a forward call on an operator node whose forward count is not
\* 0 adds one to the node's forward count and does nothing else: it calls no
\* operand and leaves the node's value, gradient buffers and backward count
\* and the whole state of every other node unchanged.
C12_CachedForwardCounts ==
    [][\A n \in Nodes :
          (ClientCall("forward", n) /\ IsOperator(n) /\ forward_count[n] # 0) =>
              /\ forward_count' = [forward_count EXCEPT ![n] = @ + 1]
              /\ Len(log') = 1
              /\ UNCHANGED <<backward_count, value, needs_gradient, lhs_gradient,
                             rhs_gradient, index_value, dense_gradient, has_dense,
                             sparse_len, sparse_data, pushed, hogwild, aborted>>]_vars

\* A forward call that found the node evaluated has left a value that is no
\* longer that of the operands.
C12_Witness ==
    /\ pc = "free"
    /\ last.op = "forward"
    /\ Kind(last.node) \in BinaryKinds
    /\ forward_count[last.node] = 2
    /\ Len(log) = 1
    /\ value[last.node] # TableValue(last.node)

\* C13: value() on an operator node changes no state and returns the value
\* cell as it is; and the value cell of an operator node changes only in a
\* call in which a forward of that node evaluates.
C13_ValueReadsCache ==
    [][\A n \in Nodes : IsOperator(n) =>
          /\ ClientCall("value", n) =>
                /\ returned' = value[n]
                /\ UNCHANGED <<forward_count, backward_count, value, needs_gradient,
                               lhs_gradient, rhs_gradient, index_value,
                               dense_gradient, has_dense, sparse_len, sparse_data,
                               pushed, hogwild, aborted>>
          /\ value'[n] # value[n] =>
                \E i \in DOMAIN log' : log'[i].op = "eval" /\ log'[i].node = n]_vars

\* value() has returned the value of the last evaluation although an operand
\* has changed since.
C13_Witness ==
    /\ pc = "free"
    /\ last.op = "value"
    /\ Kind(last.node) \in BinaryKinds
    /\ forward_count[last.node] = 1
    /\ returned = value[last.node]
    /\ returned # TableValue(last.node)

\* The zero_gradient calls a node that is not zero makes: on both operands of
\* a binary node, on the operand of a unary node and of an Index node.
ZeroCalls(n) ==
    IF Kind(n) \in BinaryKinds
    THEN <<(<<"zero", graph[n].lhs, None>>), (<<"zero", graph[n].rhs, None>>)>>
    ELSE <<(<<"zero", graph[n].lhs, None>>)>>

\* One more zero_gradient call on n would change nothing.
SecondZeroIsNoOp(n) == [NodeZeroGradient(Fresh, n, 0) EXCEPT !.log = <<>>] = Fresh

\* What the last client call made the called node do itself.
CallMade == DirectChildren(1)

\* C14 as stated: zero_gradient() on an operator node whose forward count is 0
\* changes nothing and visits no operand; when the forward count is not 0 it
\* calls zero_gradient on every operand and then sets both of its own counts
\* to 0, and a second call right after is a no-op.
C14_ZeroGradientAsStated ==
    [][\A n \in Nodes : (ClientCall("zero", n) /\ IsOperator(n)) =>
          IF forward_count[n] = 0
          THEN /\ CallMade' = <<>>
               /\ UNCHANGED <<forward_count, backward_count, value, needs_gradient,
                              lhs_gradient, rhs_gradient, index_value,
                              dense_gradient, has_dense, sparse_len, sparse_data,
                              pushed, hogwild, aborted>>
          ELSE /\ CallMade' = ZeroCalls(n)
               /\ forward_count'[n] = 0
               /\ backward_count'[n] = 0
               /\ SecondZeroIsNoOp(n)']_vars

\* C14, amended: in a build with debug assertions, zero_gradient() on an
\* operator node whose backward count differs from its forward count panics
\* and changes nothing.  In every other case: when the forward count is 0 it
\* changes nothing and visits no operand; when it is not 0 it calls
\* zero_gradient on its operands in order and, unless one of these calls
\* panicked (debug builds only), on every operand, and then sets both of its
\* own counts to 0, after which a second call is a no-op.
C14_ZeroGradient ==
    [][\A n \in Nodes : (ClientCall("zero", n) /\ IsOperator(n)) =>
          IF debug /\ backward_count[n] # forward_count[n]
          THEN /\ aborted'
               /\ CallMade' = <<>>
               /\ UNCHANGED <<forward_count, backward_count, value, needs_gradient,
                              lhs_gradient, rhs_gradient, index_value,
                              dense_gradient, has_dense, sparse_len, sparse_data,
                              pushed, hogwild>>
          ELSE IF forward_count[n] = 0
          THEN /\ CallMade' = <<>>
               /\ UNCHANGED <<forward_count, backward_count, value, needs_gradient,
                              lhs_gradient, rhs_gradient, index_value,
                              dense_gradient, has_dense, sparse_len, sparse_data,
                              pushed, hogwild, aborted>>
          ELSE IF aborted'
          THEN /\ debug
               /\ CallMade' \in {SubSeq(ZeroCalls(n), 1, k) : k \in 1..Len(ZeroCalls(n))}
          ELSE /\ CallMade' = ZeroCalls(n)
               /\ forward_count'[n] = 0
               /\ backward_count'[n] = 0
               /\ SecondZeroIsNoOp(n)']_vars

\* A zero_gradient on a binary node that had been called forward and backward
\* has visited both operands and cleared the node.
C14_Witness ==
    /\ pc = "free"
    /\ ~aborted
    /\ debug
    /\ last.op = "zero"
    /\ Kind(last.node) \in BinaryKinds
    /\ log[1].count = 1
    /\ DirectChildren(1) = ZeroCalls(last.node)
    /\ forward_count[last.node] = 0
    /\ backward_count[last.node] = 0
    /\ has_dense = [n \in Nodes |-> FALSE]
    /\ \E p \in Nodes : IsParam(p) /\ dense_gradient[p] # None

\* C20: IndexNode.backward never calls backward on its parameter operand and
\* leaves the parameter's dense buffer and has_dense unchanged: it adds one to
\* its own backward count and hands one (index list, incoming gradient) pair,
\* the list being the one its last evaluation captured, to the parameter's
\* sparse store, and does nothing else, whatever its counts are.
C20_IndexBackward ==
    [][\A n \in Nodes : (ClientCall("backward", n) /\ Kind(n) = "index") =>
          /\ backward_count' = [backward_count EXCEPT ![n] = @ + 1]
          /\ pushed' = [pushed EXCEPT
                           ![graph[n].lhs] = Append(@, <<index_value[n], last'.grad>>)]
          /\ CallMade' = <<>>
          /\ \A q \in Nodes \ {graph[n].lhs} :
                sparse_len'[q] = sparse_len[q] /\ sparse_data'[q] = sparse_data[q]
          /\ UNCHANGED <<forward_count, value, needs_gradient, lhs_gradient,
                         rhs_gradient, index_value, dense_gradient, has_dense,
                         hogwild, aborted>>]_vars

\* An Index node that was never called forward has been called backward
\* twice, after the index input was given another list.
C20_Witness ==
    /\ pc = "free"
    /\ ~aborted
    /\ last.op = "backward"
    /\ Kind(last.node) = "index"
    /\ forward_count[last.node] = 0
    /\ backward_count[last.node] = 2
    /\ Len(pushed[graph[last.node].lhs]) = 2
    /\ pushed[graph[last.node].lhs][2] = <<index_value[last.node], last.grad>>
    /\ index_value[last.node] # value[graph[last.node].rhs]
    /\ ~has_dense[graph[last.node].lhs]
    /\ dense_gradient[graph[last.node].lhs] = None

\* A node's subtree holds a parameter.
SubtreeHasParameter(n) == \E p \in ReachableFrom(graph, n) : Kind(p) = "param"

\* C18: needs_gradient() of every node is fixed at construction and changed
\* by no call: false for input and index-input leaves, true for parameter
\* leaves, the OR of the operands' flags for operator nodes, and so true
\* exactly when the node's subtree contains a parameter.
C18_NeedsGradientFixed ==
    /\ [](\A n \in Nodes :
             /\ needs_gradient[n] = SubtreeHasParameter(n)
             /\ Kind(n) \in {"input", "idxinput"} => ~needs_gradient[n]
             /\ Kind(n) = "param" => needs_gradient[n]
             /\ Kind(n) \in BinaryKinds =>
                   needs_gradient[n] =
                       (needs_gradient[graph[n].lhs] \/ needs_gradient[graph[n].rhs])
             /\ Kind(n) \in UnaryKinds \cup {"index"} =>
                   needs_gradient[n] = needs_gradient[graph[n].lhs])
    /\ [][\A n \in Nodes : needs_gradient'[n] = needs_gradient[n]]_vars

\* A binary node over a parameter and an input needs the gradient, after
\* forward, backward and zero_gradient calls on it.
C18_Witness ==
    /\ pc = "free"
    /\ calls = 3
    /\ last.op = "zero"
    /\ last.node = Root
    /\ Kind(Root) \in BinaryKinds
    /\ needs_gradient[graph[Root].lhs] # needs_gradient[graph[Root].rhs]
    /\ needs_gradient[Root]
    /\ forward_count[Root] = 0
    /\ \E p \in Nodes : IsParam(p) /\ dense_gradient[p] # None

\* C19: an operator node whose subtree holds no parameter (needs_gradient()
\* is false) never calls backward on an operand.
C19_NoPropagationWithoutParameter ==
    \A i \in DOMAIN log :
        (log[i].op = "backward" /\ IsOperator(log[i].node)
            /\ ~needs_gradient[log[i].node]) =>
                DirectChildren(i) = <<>>

\* ---- two workers
\* The counters of the nodes after one round (forward, backward) run on the
\* root r of a freshly built graph, with no other worker.
RoundAlone(r) ==
    LET g == CHOOSE x \in GradVals : TRUE
        built == BuiltGraph(graph, Len(graph))
    IN  NodeBackward(NodeForward(built, r, 0), r, g, 0)

\* C15: with two workers that each own their graph over a parameter store
\* shared through ParameterNode::shared, under every interleaving of their
\* forward, backward and zero_gradient calls, value reads and writes to the
\* shared value, a step of one worker changes no pass counter and no
\* GradientAccumulator of the other worker's nodes, and after the backward of
\* its round a worker's counters are those of the same round run alone.
C15_WorkersIsolated ==
    /\ [][\A n \in Nodes : Owner(n) # Owner(last'.node) =>
              /\ forward_count'[n] = forward_count[n]
              /\ backward_count'[n] = backward_count[n]
              /\ dense_gradient'[n] = dense_gradient[n]
              /\ has_dense'[n] = has_dense[n]
              /\ sparse_len'[n] = sparse_len[n]
              /\ sparse_data'[n] = sparse_data[n]]_vars
    /\ [](\A w \in Workers : pc[w] = "backwarded" =>
              \A n \in WorkerNodes(w) :
                  /\ forward_count[n] = RoundAlone(WorkerRoot(w)).fc[n]
                  /\ backward_count[n] = RoundAlone(WorkerRoot(w)).bc[n])

\* Both workers have finished the backward of their round over a shared
\* subgraph, the second after the first wrote the shared value, and hold
\* different gradients for the parameter.
C15_Witness ==
    /\ pc = [w \in Workers |-> "backwarded"]
    /\ last.op = "backward"
    /\ hogwild[1] # DefaultLeaf
    /\ \A w \in Workers :
          /\ forward_count[WorkerRoot(w) - 1] = 2
          /\ backward_count[WorkerRoot(w) - 1] = 2
          /\ has_dense[SharedNode(w)]
    /\ dense_gradient[SharedNode(1)] # dense_gradient[SharedNode(2)]

\* C16: the parameter nodes made with ParameterNode::shared on one store read
\* one value buffer: a write through any of them is what value() of each of
\* them returns from then on, a read being possible in every state; a
\* parameter node made with ParameterNode::new has a store that a write
\* through another node does not change.
C16_SharedValueBuffer ==
    /\ [][\A p \in Nodes : (last'.op = "write" /\ last'.node = p /\ hogwild' # hogwild) =>
              \A q \in Nodes : IsParam(q) =>
                  IF {p, q} \subseteq {SharedNode(w) : w \in Workers} \/ p = q
                  THEN /\ NodeValue(Pack, q)'[last'.row] = last'.written
                       /\ \A r \in (1..Rows) \ {last'.row} :
                             NodeValue(Pack, q)'[r] = NodeValue(Pack, q)[r]
                  ELSE NodeValue(Pack, q)' = NodeValue(Pack, q)]_vars
    /\ [][hogwild' # hogwild => last'.op = "write"]_vars
    /\ [](\A w \in Workers :
              /\ ~aborted => ENABLED WorkerValue(w, SharedNode(w))
              /\ (last.op = "value" /\ last.node = SharedNode(w)) =>
                    returned = NodeValue(Pack, SharedNode(Other(w))))

\* The second worker, which has made no call but this read, reads a value
\* of which the first worker has written one row.
C16_Witness ==
    /\ pc[2] = "start"
    /\ round[2] = 0
    /\ pc[1] = "backwarded"
    /\ last.op = "value"
    /\ last.node = SharedNode(2)
    /\ returned[1] # DefaultLeaf[1]
    /\ returned[2] = DefaultLeaf[2]
    /\ \E q \in WorkerNodes(2) : IsParam(q) /\ q # SharedNode(2)
                                    /\ NodeValue(Pack, q) = DefaultLeaf

\* C17: nothing detects or prevents a write of the shared value by another
\* worker between a worker's forward and its backward: the write is enabled
\* while the worker is between the two calls, and the backward neither aborts
\* nor recomputes a value: a Mul root sets d(lhs) = rhs_now * grad from the
\* value the store holds at the backward and keeps its cached value.
C17_StaleBackward ==
    /\ [](\A w \in Workers :
              (~aborted /\ pc[w] = "forwarded" /\ pc[Other(w)] = "backwarded") =>
                  \A r \in 1..Rows, v \in StepVals :
                      hogwild[1][r] # v[r] =>
                          ENABLED WorkerWriteRow(Other(w), SharedNode(Other(w)), r, v[r]))
    /\ [][\A w \in Workers :
              (pc[w] = "forwarded" /\ pc'[w] = "backwarded") =>
                  /\ ~aborted'
                  /\ value' = value
                  /\ hogwild' = hogwild
                  /\ Kind(WorkerRoot(w)) = "mul" =>
                        lhs_gradient'[WorkerRoot(w)] =
                            ArrMul(NodeValue(Pack, graph[WorkerRoot(w)].rhs), last'.grad)]_vars

\* A worker in its first round has run backward on input * x after the other
\* worker wrote x: d(input) is the new x times the gradient, and the cached
\* product is that of the old x.
C17_Witness ==
    \E w \in Workers :
        /\ pc[w] = "backwarded"
        /\ last.op = "backward"
        /\ last.node = WorkerRoot(w)
        /\ Kind(WorkerRoot(w)) = "mul"
        /\ Kind(graph[WorkerRoot(w)].lhs) = "input"
        /\ graph[WorkerRoot(w)].rhs = SharedNode(w)
        /\ hogwild[1] \in StepVals
        /\ value[WorkerRoot(w)] = ArrMul(DefaultLeaf, DefaultLeaf)
        /\ value[WorkerRoot(w)] # TableValue(WorkerRoot(w))
        /\ lhs_gradient[WorkerRoot(w)] = ArrMul(hogwild[1], last.grad)
        /\ lhs_gradient[WorkerRoot(w)] # ArrMul(DefaultLeaf, last.grad)

\* C25: recurse_backward() returns true exactly when the backward count equals
\* the forward count and false when it is smaller, and it changes neither
\* count.
C25_RecurseBackward ==
    /\ [](last.op = "recurse_backward" =>
             /\ backward_count[1] <= forward_count[1] => ~aborted
             /\ ~aborted => returned = (backward_count[1] = forward_count[1]))
    /\ [][last'.op = "recurse_backward" /\ calls' = calls + 1 =>
              /\ forward_count' = forward_count
              /\ backward_count' = backward_count]_vars

\* The counter was asked after two forward calls and one backward call.
C25_Witness ==
    /\ pc = "counter"
    /\ last.op = "recurse_backward"
    /\ forward_count[1] = 2
    /\ backward_count[1] = 1
    /\ returned = FALSE

\* C24: is_zero() is true exactly when the forward count is 0.  In a debug
\* build, zero_gradient() on an operator node whose backward count is smaller
\* than its forward count aborts and resets nothing; in a release build the
\* same call resets the node's counters.
C24_IsZero ==
    [][\A n \in Nodes : (ClientCall("zero", n) /\ IsOperator(n)) =>
          /\ backward_count[n] < forward_count[n] =>
                IF debug
                THEN /\ aborted'
                     /\ CallMade' = <<>>
                     /\ UNCHANGED <<forward_count, backward_count>>
                ELSE /\ ~aborted'
                     /\ CallMade' = ZeroCalls(n)
                     /\ forward_count'[n] = 0
                     /\ backward_count'[n] = 0
          /\ ~aborted' => ((CallMade' = <<>>) <=> (forward_count[n] = 0))
          /\ forward_count[n] = 0 =>
                (aborted' \/ UNCHANGED <<forward_count, backward_count>>)]_vars

\* In a release build, a zero_gradient right after the forward of a binary
\* node has reset its counters.
C24_Witness ==
    /\ pc = "free"
    /\ ~debug
    /\ ~aborted
    /\ calls = 2
    /\ last.op = "zero"
    /\ Kind(last.node) \in BinaryKinds
    /\ log[1].count = 1
    /\ CallMade = ZeroCalls(last.node)
    /\ forward_count[last.node] = 0
    /\ backward_count[last.node] = 0

\* C23: the check backward_count <= forward_count is compiled in debug builds
\* only: in a release build, a backward call on an operator node that brings
\* its backward count above its forward count does not abort, it completes.
C23_ReleaseBackwardCompletes ==
    [][\A n \in Nodes :
          (/\ ClientCall("backward", n)
           /\ IsOperator(n)
           /\ ~debug
           /\ backward_count[n] >= forward_count[n]) => ~aborted']_vars

\* C21: ParameterNode.backward always adds: on a fresh accumulator or right
\* after zero_gradient() the dense buffer after a backward call is the
\* gradient of the call, after a further backward call it is the buffer plus
\* the gradient (so after k calls the sum of the k gradients, which carries
\* over while no zero_gradient() is called); has_dense is true and the sparse
\* store is as it was.
C21_BackwardAdds ==
    [][\A g \in GradVals : (calls' = calls + 1 /\ last' = Call("dense", 1, g)) =>
          /\ has_dense'[1]
          /\ UNCHANGED <<sparse_len, sparse_data, pushed>>
          /\ (calls = 0 \/ last.op = "zero") => dense_gradient'[1] = g
          /\ last.op = "dense" => dense_gradient'[1] = ArrAdd(dense_gradient[1], g)]_vars

\* ---- the lone accumulator
\* Every element of x is in [min, max].
InRange(x, min, max) ==
    \A r \in DOMAIN x : \A c \in DOMAIN x[r] : min <= x[r][c] /\ x[r][c] <= max

\* after is before with the elements outside [min, max] changed and no other.
KeepsInRange(before, after, min, max) ==
    \A r \in DOMAIN before : \A c \in DOMAIN before[r] :
        (min <= before[r][c] /\ before[r][c] <= max) => after[r][c] = before[r][c]

\* C22: after clamp(min, max) with min <= max, every element of the dense
\* buffer and of each visible sparse contribution lies in [min, max], the
\* elements that were in the range are unchanged, and has_dense, the sparse
\* store's logical length and the index lists are unchanged.
C22_Clamp ==
    [][\A min \in ClampBounds, max \in ClampBounds :
          (min <= max /\ AccClamp(min, max)) =>
              /\ InRange(dense_gradient'[1], min, max)
              /\ dense_gradient[1] # None =>
                    KeepsInRange(dense_gradient[1], dense_gradient'[1], min, max)
              /\ \A i \in 1..sparse_len[1] :
                    /\ InRange(sparse_data'[1][i][2], min, max)
                    /\ KeepsInRange(sparse_data[1][i][2], sparse_data'[1][i][2], min, max)
              /\ has_dense' = has_dense
              /\ sparse_len' = sparse_len
              /\ Len(sparse_data'[1]) = Len(sparse_data[1])
              /\ \A i \in DOMAIN sparse_data[1] :
                    sparse_data'[1][i][1] = sparse_data[1][i][1]]_vars

\* A clamp has clipped one element of a visible sparse contribution and left
\* another as it was; it has allocated the dense buffer.
C22_Witness ==
    /\ pc = "acc"
    /\ last.op = "clamp"
    /\ sparse_len[1] = 1
    /\ Len(pushed[1]) = 1
    /\ sparse_data[1][1][1] = pushed[1][1][1]
    /\ sparse_data[1][1][2] # pushed[1][1][2]
    /\ \E r \in 1..Rows : sparse_data[1][1][2][r] = pushed[1][1][2][r]
    /\ dense_gradient[1] # None

\* The backward calls a binary node makes when it recurses: its lhs buffer to
\* the lhs operand, then its rhs buffer (Add: the same buffer) to the rhs.
HandsBuffers(n, lbuf, rbuf) ==
    <<(<<"backward", graph[n].lhs, lbuf>>),
      (<<"backward", graph[n].rhs, IF Kind(n) = "add" THEN lbuf ELSE rbuf>>)>>

\* C28: the local operand gradients of a backward call with gradient grad:
\* Add gives grad to both operands, Sub gives grad to the lhs and -grad to the
\* rhs, Mul gives rhs * grad to the lhs and lhs * grad to the rhs, with the
\* operand values as they are at the backward call; the first backward call
\* of a round writes them over the node's buffers, a later one adds them.
\* When the node recurses it hands these buffers to its operands (a panic in
\* the lhs operand's backward ends the call before the rhs is visited).
C28_LocalGradients ==
    [][\A n \in Nodes : (ClientCall("backward", n) /\ Kind(n) \in BinaryKinds) =>
          /\ lhs_gradient'[n] =
                IF backward_count[n] = 0 THEN TableLhs(n, last'.grad)
                ELSE ArrAdd(lhs_gradient[n], TableLhs(n, last'.grad))
          /\ rhs_gradient'[n] =
                IF Kind(n) = "add" THEN rhs_gradient[n]
                ELSE IF backward_count[n] = 0 THEN TableRhs(n, last'.grad)
                ELSE ArrAdd(rhs_gradient[n], TableRhs(n, last'.grad))
          /\ \/ CallMade' \in {<<>>, HandsBuffers(n, lhs_gradient'[n], rhs_gradient'[n])}
             \/ /\ aborted'
                /\ CallMade' =
                      SubSeq(HandsBuffers(n, lhs_gradient'[n], rhs_gradient'[n]), 1, 1)
          /\ UNCHANGED <<value, hogwild>>]_vars

\* A Mul node has received its second backward call of the round and handed
\* its operands the sums, computed from the operand values of the call.
C28_Witness ==
    /\ pc = "free"
    /\ ~aborted
    /\ last.op = "backward"
    /\ Kind(last.node) = "mul"
    /\ backward_count[last.node] = 2
    /\ lhs_gradient[last.node] # TableLhs(last.node, last.grad)
    /\ \E g \in GradVals :
          /\ g # last.grad
          /\ lhs_gradient[last.node] = TableLhs(last.node, ArrAdd(g, last.grad))
          /\ rhs_gradient[last.node] = TableRhs(last.node, ArrAdd(g, last.grad))
    /\ CallMade = HandsBuffers(last.node, lhs_gradient[last.node], rhs_gradient[last.node])

\* C30: after a SoftmaxNode's construction and after its forward, every row of
\* its value sums to 1, for inputs of one row and of more than one row.
C30_SoftmaxRowsSumToOne ==
    \A n \in Nodes : Kind(n) = "softmax" =>
        \A r \in DOMAIN value[n] : FracSum(value[n][r]) = <<1, 1>>

\* ---- Concatenate nodes
\* The value the consumers of node q read after the step.
NextVal(q) == IF graph'[q].kind = "param" THEN hogwild'[graph'[q].store] ELSE value'[q]

\* The step has built node n or evaluated it in a forward call.
BuiltOrEvaluated(n) ==
    \/ n = Len(graph) + 1
    \/ /\ last'.op = "forward"
       /\ calls' = calls + 1
       /\ \E i \in DOMAIN log' : log'[i].op = "eval" /\ log'[i].node = n

\* C27: for a Concatenate node on axis 0 whose lhs has m rows and whose rhs
\* has n rows, the value (at construction and after an evaluating forward)
\* has m + n rows, rows 0..m-1 those of the lhs and rows m..m+n-1 those of
\* the rhs; the first backward call of a round sets the lhs gradient to rows
\* 0..m-1 and the rhs gradient to rows m..m+n-1 of the incoming gradient, and
\* a later backward call adds the same slices to them.
C27_RowWiseConcatenate ==
    [][/\ \A n \in 1..Len(graph') :
             (graph'[n].kind = "concat" /\ graph'[n].axis = 0 /\ BuiltOrEvaluated(n)) =>
                 /\ Len(value'[n]) = Len(NextVal(graph'[n].lhs)) + Len(NextVal(graph'[n].rhs))
                 /\ \A i \in DOMAIN NextVal(graph'[n].lhs) :
                       value'[n][i] = NextVal(graph'[n].lhs)[i]
                 /\ \A j \in DOMAIN NextVal(graph'[n].rhs) :
                       value'[n][Len(NextVal(graph'[n].lhs)) + j] = NextVal(graph'[n].rhs)[j]
       /\ \A n \in Nodes :
             (ClientCall("backward", n) /\ Kind(n) = "concat" /\ graph[n].axis = 0) =>
                 LET m == Len(NodeValue(Pack, graph[n].lhs))
                     top == SubSeq(last'.grad, 1, m)
                     bottom == SubSeq(last'.grad, m + 1, Len(last'.grad))
                 IN  /\ Len(bottom) = Len(NodeValue(Pack, graph[n].rhs))
                     /\ lhs_gradient'[n] =
                           IF backward_count[n] = 0 THEN top
                           ELSE ArrAdd(lhs_gradient[n], top)
                     /\ rhs_gradient'[n] =
                           IF backward_count[n] = 0 THEN bottom
                           ELSE ArrAdd(rhs_gradient[n], bottom)]_vars

\* A node that stacks the rows of two leaves on the rows of one has been
\* called forward and backward: its value is the rows of its operands, its
\* buffers are the first two thirds and the last third of the gradient, and
\* its lhs operand, a Concatenate node too, has split the rows it received.
C27_Witness ==
    /\ pc = "free"
    /\ ~aborted
    /\ last.op = "backward"
    /\ last.node = Root
    /\ Kind(Root) = "concat" /\ graph[Root].axis = 0
    /\ Kind(graph[Root].lhs) = "concat" /\ graph[graph[Root].lhs].axis = 0
    /\ Len(value[Root]) = 3 * Rows
    /\ Len(value[graph[Root].lhs]) = 2 * Rows
    /\ value[Root] = value[graph[Root].lhs] \o NodeValue(Pack, graph[Root].rhs)
    /\ value[Root][1] # value[Root][2 * Rows + 1]
    /\ backward_count[Root] = 1
    /\ lhs_gradient[Root] = SubSeq(last.grad, 1, 2 * Rows)
    /\ rhs_gradient[Root] = SubSeq(last.grad, 2 * Rows + 1, 3 * Rows)
    /\ rhs_gradient[graph[Root].lhs] = SubSeq(last.grad, Rows + 1, 2 * Rows)
    /\ lhs_gradient[Root][1] # rhs_gradient[Root][1]

\* The step is a call of ConcatenateNode::new with an axis other than 0 and 1.
BadAxisConstruct == last' # last /\ last'.op = "construct" /\ last'.axis \notin {0, 1}

\* A Concatenate node with an axis other than 0 and 1.
BadAxisNode(n) == Kind(n) = "concat" /\ graph[n].axis \notin {0, 1}

ShapeChanged(n) ==
    CASE Kind(n) = "add" ->
            \/ Shape(NodeValue(Pack, graph[n].lhs)) # Shape(lhs_gradient[n])
            \/ Shape(NodeValue(Pack, graph[n].rhs)) # Shape(lhs_gradient[n])
      [] Kind(n) = "concat" ->
            \/ Shape(NodeValue(Pack, graph[n].lhs)) # Shape(lhs_gradient[n])
            \/ Shape(NodeValue(Pack, graph[n].rhs)) # Shape(rhs_gradient[n])
      [] Kind(n) = "index" -> Len(value[graph[n].rhs]) # Len(lhs_gradient[n])
      [] OTHER -> FALSE

\* Row i of the value of node n as its operands give it; None when the
\* operands have no row for it.
RowFromOperands(n, i) ==
    LET l == NodeValue(Pack, graph[n].lhs)
        r == value[graph[n].rhs]
    IN  CASE Kind(n) = "add" ->
                IF i <= Len(l) /\ i <= Len(r)
                THEN [c \in DOMAIN l[i] |-> l[i][c] + r[i][c]] ELSE None
          [] Kind(n) = "concat" ->
                IF i <= Len(l) THEN l[i]
                ELSE IF i <= Len(l) + Len(r) THEN r[i - Len(l)] ELSE None
          [] Kind(n) = "index" -> IF i <= Len(r) THEN l[r[i] + 1] ELSE None

C39_SparseStore ==
    /\ [](sparse_len[1] <= Len(sparse_data[1]))
    /\ [][/\ Len(sparse_data'[1]) >= Len(sparse_data[1])
          /\ AccZero => sparse_len'[1] = 0 /\ sparse_data' = sparse_data
          /\ \A idx \in IdxVals, g \in GradVals :
                (AccSparse(idx, g) /\ sparse_len[1] < Len(sparse_data[1])) =>
                    sparse_data'[1] =
                        [sparse_data[1] EXCEPT ![sparse_len[1] + 1] = <<idx, g>>]]_vars

\* A push after a clear has written the slot the store kept, the only one.
C39_Witness ==
    /\ pc = "acc"
    /\ last.op = "sparse"
    /\ calls = 3
    /\ Len(pushed[1]) = 1
    /\ sparse_len[1] = 1
    /\ Len(sparse_data[1]) = 1
    /\ sparse_data[1][1] = pushed[1][1]

\* C38: no operation on a HogwildParameter (ParameterNode::shared, the value
\* accessors, the *_mut accessors) takes or changes a RefCell borrow of the
\* store's cells: the borrow flag stays clear, a read or a write of a worker
\* never fails, and both are possible whatever the other worker is doing.
C38_NoBorrowOfStore ==
    /\ [](\A sid \in DOMAIN value_borrows : value_borrows[sid] = 0)
    /\ [][\A w \in Workers, p \in Nodes :
              (\/ WorkerValue(w, p)
               \/ \E r \in 1..Rows, v \in StepVals : WorkerWriteRow(w, p, r, v[r])) =>
                  ~aborted' /\ value_borrows' = value_borrows]_vars
    /\ [](\A w \in Workers : ~aborted =>
              /\ ENABLED WorkerValue(w, SharedNode(w))
              /\ pc[w] = "backwarded" =>
                    \A r \in 1..Rows, v \in StepVals :
                        hogwild[1][r] # v[r] =>
                            ENABLED WorkerWriteRow(w, SharedNode(w), r, v[r]))

\* The second worker has written a row of the shared value through its own
\* parameter node while the first is between its forward and its backward.
C38_Witness ==
    /\ Len(graph) >= 2
    /\ graph[SharedNode(2)].store = 1
    /\ pc[1] = "forwarded"
    /\ pc[2] = "backwarded"
    /\ last.op = "write"
    /\ last.node = SharedNode(2)
    /\ hogwild[1] # DefaultLeaf
    /\ value_borrows[1] = 0

\* C36: LogSoftmaxNode.zero_counter() sets the node's forward and backward
\* counts to 0 without checking that they were equal (it never aborts) and
\* leaves the operand's counters, every value, every gradient buffer and every
\* parameter accumulator as they were; a zero_gradient() on the node right
\* after it changes nothing and makes no call on the operand.
C36_ZeroCounter ==
    [][/\ LogSoftmaxZeroCounter =>
            /\ forward_count'[Root] = 0
            /\ backward_count'[Root] = 0
            /\ ~aborted'
            /\ \A n \in Nodes \ {Root} :
                  /\ forward_count'[n] = forward_count[n]
                  /\ backward_count'[n] = backward_count[n]
            /\ UNCHANGED <<value, lhs_gradient, rhs_gradient, index_value, dense_gradient,
                           has_dense, sparse_len, sparse_data, pushed, hogwild>>
       /\ (last.op = "zero_counter" /\ LogSoftmaxZeroGradient) =>
            /\ UNCHANGED <<forward_count, backward_count, value, lhs_gradient, rhs_gradient,
                           index_value, dense_gradient, has_dense, sparse_len, sparse_data,
                           pushed, hogwild, aborted>>
            /\ log' = <<Event("zero", Root, 0, 0, None)>>]_vars

\* In a debug build, zero_counter was called on a node that had seen a
\* forward and no backward, and the zero_gradient after it has returned: the
\* operand still counts the forward call.
C36_Witness ==
    /\ pc = "logsoftmax"
    /\ debug
    /\ ~aborted
    /\ calls = 3
    /\ last.op = "zero"
    /\ Len(graph) = 4
    /\ forward_count[Root] = 0
    /\ forward_count[3] = 1
    /\ backward_count[3] = 0

\* Node n has recomputed its value during the step.
Evaluated(n) == \E i \in DOMAIN log' : log'[i].op = "eval" /\ log'[i].node = n

\* C35: after an evaluating forward of an Index node, output row i is row
\* idx[i] of the parameter's current value for every i, idx being the index
\* input's list at that moment, which the node captures; a later change of the
\* index input in the round changes neither the cached value nor the captured
\* list (nor does a cached forward), and backward attaches the captured list
\* to its sparse contribution.
C35_IndexForward ==
    [][\A n \in Nodes : (Len(graph') = Len(graph) /\ Kind(n) = "index") =>
          LET idx == value'[graph[n].rhs]
          IN  /\ Evaluated(n) =>
                    /\ DOMAIN value'[n] = DOMAIN idx
                    /\ \A i \in DOMAIN idx : value'[n][i] = NextVal(graph[n].lhs)[idx[i] + 1]
                    /\ index_value'[n] = idx
              /\ ~Evaluated(n) => value'[n] = value[n] /\ index_value'[n] = index_value[n]
              /\ (ClientCall("forward", n) /\ forward_count[n] >= 1) => ~Evaluated(n)
              /\ last'.op = "write" => ~Evaluated(n)
              /\ ClientCall("backward", n) =>
                    pushed'[graph[n].lhs] =
                        Append(pushed[graph[n].lhs], <<index_value[n], last'.grad>>)]_vars

\* After the forward of an Index node the index input was given another
\* list; the backward that followed has attached the list of the forward, to
\* which the rows of the cached value still belong.
C35_Witness ==
    /\ pc = "free"
    /\ ~aborted
    /\ calls = 3
    /\ last.op = "backward"
    /\ Kind(last.node) = "index"
    /\ forward_count[last.node] = 1
    /\ LET n == last.node
           p == graph[n].lhs
       IN  /\ index_value[n] # value[graph[n].rhs]
           /\ pushed[p] = <<(<<index_value[n], last.grad>>)>>
           /\ \A i \in DOMAIN value[n] : value[n][i] = hogwild[graph[p].store][index_value[n][i] + 1]
           /\ \E i \in DOMAIN value[n] :
                 value[n][i] # hogwild[graph[p].store][value[graph[n].rhs][i] + 1]

\* ---- the client that never calls zero_gradient
\* The operations of the client's calls so far, the writes left out.
Passes == [k \in DOMAIN SelectSeq(Trace, LAMBDA c : c.op # "write") |->
              SelectSeq(Trace, LAMBDA c : c.op # "write")[k].op]

\* The client has completed a round: a forward, then a backward.
RoundDone ==
    \E i \in DOMAIN Trace : \E j \in DOMAIN Trace :
        i < j /\ Trace[i].op = "forward" /\ Trace[j].op = "backward"

\* C34: a root.forward() made after a round with no zero_gradient in between,
\* an input's value having been changed or not, is a cache hit: the root
\* calls forward on no operand, no node value is recomputed and root.value()
\* is what it was.
C34_StaleForward ==
    [][(RepeatForward /\ IsOperator(Root) /\ RoundDone) =>
          /\ ~aborted'
          /\ forward_count[Root] >= 1
          /\ log' = <<Event("forward", Root, 0, forward_count[Root], None)>>
          /\ value' = value
          /\ NodeValue(Pack, Root)' = NodeValue(Pack, Root)]_vars

\* A forward, a backward, a write of an input leaf under the root and a
\* second forward: the root's value is not what its operands' values give.
C34_Witness ==
    /\ pc = "repeat"
    /\ ~aborted
    /\ IsOperator(Root)
    /\ Kind(Root) # "index"
    /\ [k \in DOMAIN Trace |-> Trace[k].op] = <<"forward", "backward", "write", "forward">>
    /\ Kind(Trace[3].node) = "input"
    /\ Trace[3].node \in Operands(graph, Root)
    /\ forward_count[Root] = 2
    /\ value[Root] # TableValue(Root)

\* The gradient of the client's first backward call.
FirstGrad == SelectSeq(Trace, LAMBDA c : c.op = "backward")[1].grad

\* The gradients the root has received once the call with g is made.
GradsWith(g) == IF Len(Passes) = 1 THEN <<g>> ELSE <<FirstGrad, g>>

\* The client has written no leaf since its first forward.
NoWriteSinceForward ==
    \A i \in DOMAIN Trace : \A j \in DOMAIN Trace :
        (Trace[i].op = "write" /\ Trace[j].op # "write") => i < j

\* The call is the first or the second backward of forward, backward,
\* forward, backward, no other call of the client in between.
RepeatedBackward(g) ==
    /\ RepeatBackward(g)
    /\ IsOperator(Root)
    /\ NoWriteSinceForward
    /\ Passes \in {<<"forward">>, <<"forward", "backward", "forward">>}

\* An operand whose backward aborts when it is called once more than its
\* forward: every operator node but an Index node.
AbortsOnExtraBackward(m) == IsOperator(m) /\ Kind(m) # "index"

\* The operands of the root are leaves.
OverLeaves == \A m \in Operands(graph, Root) : ~IsOperator(m)

\* What a parameter operand p of an Add root holds after the call with g: the
\* gradients handed over so far, once for each operand that p is.
AddAccumulated(p, g) ==
    ArrScale(EdgeCount(Root, p),
             IF Len(Passes) = 1 THEN g ELSE ArrAdd(FirstGrad, ArrAdd(FirstGrad, g)))

\* C33 as stated: without a clear in between, forward, backward(g1), forward,
\* backward(g2) on an operator node makes it call backward on its operands
\* twice, the second time with the running sum of g1 and g2, so that a
\* parameter operand of an Add node ends with g1 + (g1 + g2).
C33_BackwardTwice ==
    [][\A g \in GradVals : RepeatedBackward(g) =>
          /\ Kind(Root) = "index" => CallMade' # <<>>
          /\ Kind(Root) # "index" => CallMade' = Propagation(Root, GradsWith(g))
          /\ (Kind(Root) = "add" /\ OverLeaves) =>
                \A p \in Operands(graph, Root) :
                    IsParam(p) => dense_gradient'[p] = AddAccumulated(p, g)]_vars

\* The calls of cs up to the first one that aborts.
CallsUntilAbort(cs) ==
    LET bad == {k \in DOMAIN cs : AbortsOnExtraBackward(cs[k][2])}
    IN  IF bad = {} THEN cs
        ELSE SubSeq(cs, 1, CHOOSE k \in bad : \A j \in bad : k <= j)

\* C33, amended: on an operator node other than an Index node, the first
\* backward hands each operand its contribution of g1 and the second the
\* running sum of g1 and g2 (Increment); when the operands are leaves both
\* calls complete, and a parameter that is an operand of an Add node ends with
\* g1 + (g1 + g2) for each operand it is; an operand that is itself an
\* operator node aborts the program in the second call made on it.
C33_BackwardTwiceOverLeaves ==
    [][\A g \in GradVals : (RepeatedBackward(g) /\ Kind(Root) # "index") =>
          LET full == Propagation(Root, GradsWith(g))
              operators == \E k \in DOMAIN full : AbortsOnExtraBackward(full[k][2])
          IN  /\ Len(Passes) = 1 => CallMade' = full /\ ~aborted'
              /\ Len(Passes) = 3 =>
                    /\ CallMade' = CallsUntilAbort(full)
                    /\ aborted' = operators
              /\ (Kind(Root) = "add" /\ OverLeaves) =>
                    \A p \in Operands(graph, Root) :
                        IsParam(p) => dense_gradient'[p] = AddAccumulated(p, g)]_vars

\* An Add node over a parameter and an input has been called forward,
\* backward(g1), forward, backward(g2) with g1 # g2: the parameter holds
\* g1 + (g1 + g2).
C33_Witness ==
    /\ pc = "repeat"
    /\ ~aborted
    /\ Kind(Root) = "add"
    /\ Passes = <<"forward", "backward", "forward", "backward">>
    /\ FirstGrad # last.grad
    /\ \E p \in Operands(graph, Root) :
          /\ IsParam(p)
          /\ EdgeCount(Root, p) = 1
          /\ dense_gradient[p] = ArrAdd(FirstGrad, ArrAdd(FirstGrad, last.grad))
          /\ lhs_gradient[Root] = ArrAdd(FirstGrad, last.grad)

\* The call is the backward of forward, forward, backward on an operator root.
BackwardAfterTwoForwards(g) ==
    /\ RepeatBackward(g)
    /\ IsOperator(Root)
    /\ Passes = <<"forward", "forward">>

\* C32 as stated: after two root.forward() calls and one root.backward(g) the
\* root's backward count (1) is below its forward count (2), the root has
\* called backward on no operand and no parameter's GradientAccumulator has
\* changed.
C32_NoPropagation ==
    [][\A g \in GradVals : BackwardAfterTwoForwards(g) =>
          /\ forward_count'[Root] = 2
          /\ backward_count'[Root] = 1
          /\ CallMade' = <<>>
          /\ UNCHANGED <<dense_gradient, has_dense, sparse_len, sparse_data, pushed>>]_vars

\* C32, amended: the same for a root other than an Index node, which also
\* completes; an Index root hands its (index list, gradient) pair to the
\* sparse store of its parameter's accumulator, whatever its counts are.
C32_NoPropagationButIndex ==
    [][\A g \in GradVals : BackwardAfterTwoForwards(g) =>
          /\ forward_count'[Root] = 2
          /\ backward_count'[Root] = 1
          /\ CallMade' = <<>>
          /\ ~aborted'
          /\ UNCHANGED <<dense_gradient, has_dense>>
          /\ IF Kind(Root) = "index"
             THEN pushed' = [pushed EXCEPT ![graph[Root].lhs] =
                                              Append(@, <<index_value[Root], g>>)]
             ELSE UNCHANGED <<sparse_len, sparse_data, pushed>>]_vars

\* A binary root over a parameter was called forward twice and backward once:
\* it holds the gradient in its buffer and the parameter has received nothing.
C32_Witness ==
    /\ pc = "repeat"
    /\ ~aborted
    /\ Passes = <<"forward", "forward", "backward">>
    /\ Kind(Root) \in ElementwiseKinds
    /\ forward_count[Root] = 2
    /\ backward_count[Root] = 1
    /\ lhs_gradient[Root] = TableLhs(Root, last.grad)
    /\ ~IsZeroArr(lhs_gradient[Root])
    /\ IsParam(graph[Root].lhs)
    /\ dense_gradient[graph[Root].lhs] = None
    /\ ~has_dense[graph[Root].lhs]

\* ---- the calls of a pass
\* The calls op that node m has received during the last client call.
CallsOn(op, m) == Cardinality({i \in DOMAIN log : log[i].op = op /\ log[i].node = m})

\* The operand edges that lead to m from the reachable operator nodes other
\* than Index nodes, with multiplicity; plus the client's call for the root.
RECURSIVE CallingEdgesUpTo(_, _)
CallingEdgesUpTo(m, n) ==
    IF n = 0 THEN 0
    ELSE CallingEdgesUpTo(m, n - 1)
         + (IF n \in Reach /\ IsOperator(n) /\ Kind(n) # "index" THEN EdgeCount(n, m) ELSE 0)

CallingEdges(m) == (IF m = Root THEN 1 ELSE 0) + CallingEdgesUpTo(m, Len(graph))

\* The same for zero_gradient, which an Index node passes on to its operand
\* (and not to its index input).
RECURSIVE ZeroEdgesUpTo(_, _)
ZeroEdgesUpTo(m, n) ==
    IF n = 0 THEN 0
    ELSE ZeroEdgesUpTo(m, n - 1)
         + (IF n \in Reach /\ Kind(n) = "index" /\ graph[n].lhs = m THEN 1 ELSE 0)

ZeroEdges(m) == CallingEdges(m) + ZeroEdgesUpTo(m, Len(graph))

ThePass == CASE pc = "forwarded" -> "forward" [] pc = "backwarded" -> "backward"

\* C37 as stated: in a round from zeroed counters, root.forward() makes exactly
\* one forward call per operand edge of every reachable operator node (plus
\* the call on the root), and root.backward() one backward call per such edge.
C37_OneCallPerEdge ==
    pc \in {"forwarded", "backwarded"} =>
        \A m \in Nodes :
            CallsOn(ThePass, m) = IF m \in Reach THEN Multiplicity(m) ELSE 0

\* C37, amended: the same with the operand edges of the reachable operator
\* nodes other than Index nodes, an Index node calling neither forward nor
\* backward on its operand or its index input; the passes return, and so does
\* zero_gradient, which makes one call per such edge and one per Index node
\* on its operand.
C37_OneCallPerCallingEdge ==
    /\ pc \in {"forwarded", "backwarded"} =>
          /\ ~aborted
          /\ \A m \in Nodes : CallsOn(ThePass, m) = CallingEdges(m)
    /\ (pc = "start" /\ last.op = "zero" /\ ~aborted) =>
          \A m \in Nodes : CallsOn("zero", m) = ZeroEdges(m)

\* In the graph x, y = x - x, z = (y + y) + y the backward pass has called y
\* three times and x twice, not once per path from z.
C37_Witness ==
    /\ pc = "backwarded"
    /\ round = 2
    /\ graph = SubCounterGraph
    /\ CallsOn("backward", 2) = 3
    /\ CallsOn("backward", 1) = 2
    /\ Len(log) = 7

\* ---- no state of a round leaks into the next
\* The freshly built graph with the leaves holding what they hold now.
FreshlyBuilt ==
    LET built == BuiltGraph(graph, Len(graph))
    IN  [built EXCEPT !.value = [n \in DOMAIN graph |->
                                    IF Kind(n) \in {"input", "idxinput"}
                                    THEN value[n] ELSE built.value[n]],
                      !.hogwild = hogwild]

\* The first round (root forward, root backward with seed g) on that graph.
FirstRound(g) == NodeBackward(NodeForward(FreshlyBuilt, Root, 0), Root, g, 0)

\* The round after a round and a zero_gradient has completed.
SecondRoundDone == pc = "backwarded" /\ round = 2 /\ ~aborted

\* Values and counters of the nodes, dense buffer and has_dense of the
\* parameters are those the first round gives.
SameButSparse(f) ==
    /\ ~f.aborted
    /\ \A n \in Reach :
          /\ value[n] = f.value[n]
          /\ forward_count[n] = f.fc[n]
          /\ backward_count[n] = f.bc[n]
    /\ \A p \in Reach : IsParam(p) =>
          /\ has_dense[p] = f.has_dense[p]
          /\ (has_dense[p] => dense_gradient[p] = f.dense[p])

\* The visible sparse contributions are those the first round gives.
SameSparse(f) ==
    \A p \in Reach : IsParam(p) => VisibleSparse(p) = AsSlice(f.slen[p], f.sdata[p])

\* C31: after a round (root forward, root backward) and root.zero_gradient(),
\* the same round run again on the same inputs gives the node values, the
\* counters and the parameter gradients (dense buffer, has_dense, visible
\* sparse contributions) that the first round gives on the freshly built graph.
C31_NoLeak ==
    SecondRoundDone => SameButSparse(FirstRound(last.grad)) /\ SameSparse(FirstRound(last.grad))

\* Everything but the visible sparse contributions is as after the first round.
C31_NoLeakButSparse ==
    SecondRoundDone => SameButSparse(FirstRound(last.grad))

====
